---- MODULE Spec2Model ----
(***************************************************************************)
(* Crypto_RAG: the retrieval tool (agent/tools/news.py), the analysis      *)
(* workflow (agent/agent.py, agent/nodes.py), the ingestion pipeline       *)
(* (services/rag.py, services/scrape.py, services/news.py) and the         *)
(* vector-store, embedding and client services it rests on.                *)
(*                                                                         *)
(* The specifications of the module share its variables:                   *)
(*   SpecTool      - search_news_rag applied to every combination of       *)
(*                   embedder and vector-store outcomes;                   *)
(*   Spec          - the LangGraph workflow, turn after turn on a thread;  *)
(*   SpecIngest    - process_news / process_unprocessed_news against the   *)
(*                   document store and the vector store;                  *)
(*   SpecPool      - the tasks of one gather under their semaphore;        *)
(*   SpecScrape    - one scrape_news call;                                 *)
(*   SpecClient    - concurrent first calls of get_client, with the        *)
(*                   bootstrap of the vector collection;                   *)
(*   SpecVec       - add_vectors calls on the vector index;                *)
(*   SpecDelete    - delete_vectors calls on the vector index;             *)
(*   SpecEmbed     - one _jina_embed_request call;                         *)
(*   SpecSingleton - get_agent calls of concurrent requests;               *)
(*   SpecOverlap   - two process_news invocations on one event loop;       *)
(*   SpecRecover   - ingestion runs followed by repeated recovery, with    *)
(*                   fairness;                                             *)
(*   SpecLive      - one workflow invocation, every started stage          *)
(*                   completing.                                           *)
(***************************************************************************)
EXTENDS Integers, Sequences, FiniteSets, TLC

(***************************************************************************)
(* Bounds of the model.                                                    *)
(***************************************************************************)
\* largest number of hits one vector search returns
MaxHits == 2

(***************************************************************************)
(* Retrieval tool: agent/tools/news.py, search_news_rag.                   *)
(*                                                                         *)
(* One attempt is an embed_query_jina call followed by a search_vectors    *)
(* call.  Its outcome is "embed_exc" (the embedder raised, or returned no  *)
(* vector so that query_embedding[0] raises), "search_exc" (the vector     *)
(* store raised) or "ok" with n hits, n >= 0.                              *)
(***************************************************************************)
AttemptOutcomes ==
    {[st |-> "embed_exc", n |-> 0], [st |-> "search_exc", n |-> 0]}
        \cup {[st |-> "ok", n |-> k] : k \in 0..MaxHits}

\* news.py:124-130: two expanded queries for a non-blank core, one otherwise
expanded_queries(core_blank) ==
    IF core_blank THEN 1 ELSE 2

\* a loop that keeps searching after an expansion has returned hits and
\* returns the hits of the last one
RECURSIVE fallback_loop_last(_, _, _)
fallback_loop_last(fo, i, k) ==
    IF i > k
      THEN [found |-> FALSE, idx |-> 0, n |-> 0, tried |-> k]
      ELSE LET rest == fallback_loop_last(fo, i + 1, k)
           IN  IF rest.found
                 THEN [rest EXCEPT !.tried = k]
                 ELSE IF fo[i].st = "ok" /\ fo[i].n > 0
                        THEN [found |-> TRUE, idx |-> i, n |-> fo[i].n, tried |-> k]
                        ELSE rest

\* news.py:133-146: the loop over the expanded queries.  fo[i] is the outcome
\* of the attempt for expansion i.  An exception inside the loop is swallowed
\* (continue); the first expansion with hits ends the loop.
RECURSIVE fallback_loop(_, _, _)
fallback_loop(fo, i, k) ==
    IF i > k
      THEN [found |-> FALSE, idx |-> 0, n |-> 0, tried |-> k]
      ELSE IF fo[i].st = "ok" /\ fo[i].n > 0
             THEN [found |-> TRUE, idx |-> i, n |-> fo[i].n, tried |-> i]
             ELSE fallback_loop(fo, i + 1, k)

\* the payloads the tool returns (news.py:143, 151-158, 160, 164)
Chunks(n, from) ==
    [kind |-> "chunks", n |-> n, sugg |-> 0, from |-> from]

NoResultsSentinel(sugg) ==
    [kind |-> "no_results", n |-> 1, sugg |-> sugg, from |-> 0]

ErrorSentinel ==
    [kind |-> "error", n |-> 1, sugg |-> 0, from |-> 0]

\* a tool without the no-results branch: it returns the empty result list
search_news_rag_empty(core_blank, o0, fo) ==
    IF o0.st # "ok"
      THEN [res |-> ErrorSentinel, fallbacks |-> 0]
      ELSE IF o0.n > 0
             THEN [res |-> Chunks(o0.n, 0), fallbacks |-> 0]
             ELSE LET k == expanded_queries(core_blank)
                      f == fallback_loop(fo, 1, k)
                  IN  IF f.found
                        THEN [res |-> Chunks(f.n, f.idx), fallbacks |-> f.tried]
                        ELSE [res |-> Chunks(0, 0), fallbacks |-> f.tried]

\* news.py:108-164.  o0 is the outcome of the initial attempt, fo the outcomes
\* the expanded queries would have.  res is the returned list (kind, length n,
\* number of suggested queries carried, attempt the hits came from: 0 is the
\* initial one); fallbacks is the number of fallback attempts issued.
search_news_rag(core_blank, o0, fo) ==
    IF o0.st # "ok"
      THEN [res |-> ErrorSentinel, fallbacks |-> 0]
      ELSE IF o0.n > 0
             THEN [res |-> Chunks(o0.n, 0), fallbacks |-> 0]
             ELSE LET k == expanded_queries(core_blank)
                      f == fallback_loop(fo, 1, k)
                  IN  IF f.found
                        THEN [res |-> Chunks(f.n, f.idx), fallbacks |-> f.tried]
                        ELSE [res |-> NoResultsSentinel(k), fallbacks |-> f.tried]

\* similarity thresholds are counted in tenths: 0..10 is [0.0, 1.0]
Thresholds ==
    0..10

\* news.py:139: score_threshold=max(0.5, similarity_threshold - 0.1)
fallback_score_threshold(similarity_threshold) ==
    IF similarity_threshold - 1 >= 5 THEN similarity_threshold - 1 ELSE 5

(***************************************************************************)
(* Analysis workflow: agent/agent.py (graph, generate_response) and        *)
(* agent/nodes.py (nodes and routing functions).                           *)
(***************************************************************************)
\* largest number of turns on the thread
MaxTurns == 2
\* largest number of tool calls in one NewsCollector response
MaxCalls == 1

\* A list of news records as the workflow reads it: its length and what its
\* first record is (a scored chunk, the no-results record, the error record).
EmptyList ==
    [kind |-> "empty", n |-> 0]

AsList(res) ==
    [kind |-> res.kind, n |-> res.n]

\* every list search_news_rag can return
ToolResults ==
    {AsList(search_news_rag(b, o0, <<f1, f2>>).res) :
        b \in BOOLEAN, o0 \in AttemptOutcomes,
        f1 \in AttemptOutcomes, f2 \in AttemptOutcomes}

\* messages of the thread
HumanMessage(t) ==
    [type |-> "human", tag |-> "user", turn |-> t, calls |-> 0,
     content |-> EmptyList]

AIMessage(tag, t, calls) ==
    [type |-> "ai", tag |-> tag, turn |-> t, calls |-> calls,
     content |-> EmptyList]

ToolMessage(t, list) ==
    [type |-> "tool", tag |-> "search_news_rag", turn |-> t, calls |-> 0,
     content |-> list]

\* agent.py:283-291, the input state of a turn (all but messages)
EmptyInsights ==
    [keys |-> {}, news_themes |-> <<>>, processed_news |-> EmptyList]

\* a router that sends every decided route into the retrieval path
route_analysis_flow_any(nn) ==
    IF nn # "" THEN "query_processor" ELSE "__end__"

\* nodes.py:573-577
route_analysis_flow(nn) ==
    IF nn = "rag_analysis" THEN "query_processor" ELSE "__end__"

\* a router that sends the workflow back into NewsCollector
should_continue_news_collection_again(strategy) ==
    "news_collector"

\* a router that skips the tool execution
should_continue_news_collection_skip(strategy) ==
    IF strategy = "multi_target_search" THEN "news_synthesizer" ELSE "news_tools"

\* nodes.py:542-548
should_continue_news_collection(strategy) ==
    IF strategy = "multi_target_search" THEN "news_tools" ELSE "news_synthesizer"

\* the earlier routing, keyed off market_insights.news_themes
should_continue_synthesis_themes(nd, mi) ==
    IF mi.news_themes # <<>> THEN "market_analyzer" ELSE "__end__"

\* nodes.py:551-570
should_continue_synthesis(nd, mi) ==
    LET news == IF nd.n = 0
                  THEN IF "processed_news" \in mi.keys
                         THEN mi.processed_news
                         ELSE EmptyList
                  ELSE nd
    IN  IF news.n > 0 THEN "market_analyzer" ELSE "__end__"

\* a Supervisor that ends the workflow on every output it does not recognise
supervisor_route_strict(route) ==
    IF route = "RAG_ANALYSIS" THEN "rag_analysis" ELSE "end"

\* nodes.py:77-93: the route the Supervisor stores for a classifier output
supervisor_route(route) ==
    IF route = "DIRECT_ANSWER" THEN "end" ELSE "rag_analysis"

\* nodes.py:332-356: the content of the latest tool message, with the turn it
\* was produced in; the empty list (turn 0) when the thread holds none
RECURSIVE latest_tool_message(_, _)
latest_tool_message(msgs, i) ==
    IF i = 0
      THEN [list |-> EmptyList, turn |-> 0]
      ELSE IF msgs[i].type = "tool"
             THEN [list |-> msgs[i].content, turn |-> msgs[i].turn]
             ELSE latest_tool_message(msgs, i - 1)

\* nodes.py:359: the test that selects the fallback branch of NewsSynthesizer
is_no_evidence(nd) ==
    nd.n = 0 \/ (nd.n = 1 /\ nd.kind = "no_results")

(***************************************************************************)
(* Ingestion: services/rag.py, services/scrape.py, services/news.py,       *)
(* services/vectordb.py and the News document (models/news/news.py).       *)
(***************************************************************************)
\* number of articles the source site can list
MaxArticles == 2
\* largest number of ingestion runs
MaxRuns == 2
\* rag.py:161, vectors per add_vectors call
batch_size == 10

\* core/config.py:57, the configured vector dimension
EMBEDDING_DIMENSION == 512

\* embed.py:80, texts per request to the embedding service
embed_batch_size == 100

Articles ==
    1..MaxArticles

\* The site's content.  An article's publish time is its number; article 1
\* has a blank description, the even ones a description of 11 chunks (two
\* sub-batches), the others of 2 chunks.
PublishTime(a) ==
    a

NChunks(a) ==
    IF a = 1 THEN 0 ELSE IF a % 2 = 0 THEN batch_size + 1 ELSE 2

Min2(x, y) ==
    IF x <= y THEN x ELSE y

\* models/news/news.py:9-24.  News declares VDB_added_at: datetime =
\* Field(...): the field is required and not Optional, so building or loading
\* a News whose VDB_added_at is None raises a validation error.  A stamp is
\* the empty set (None) or {time}.
news_validates(vdb) ==
    vdb # {}

\* copies is the number of documents of the collection with the article's id
Absent ==
    [stored |-> FALSE, time |-> 0, vdb |-> {}, copies |-> 0]

StoredIds(store) ==
    {a \in Articles : store[a].stored}

\* services/news.py:59-60 and scrape.py:36-42: the time of the most recent
\* stored article ({} when the collection is empty)
latest_news_time(store) ==
    IF StoredIds(store) = {}
      THEN {}
      ELSE {CHOOSE t \in {store[a].time : a \in StoredIds(store)} :
                \A a \in StoredIds(store) : store[a].time <= t}

\* the document get_latest_news loads must validate as a News
latest_news_loads(store) ==
    \A a \in StoredIds(store) :
        store[a].time \in latest_news_time(store) => news_validates(store[a].vdb)

\* a filter that also keeps an article as old as the latest stored one
timestamp_filter_ge(scraped, latest) ==
    {a \in scraped : latest = {} \/ \A t \in latest : PublishTime(a) >= t}

\* a filter that holds back the earliest of the new articles
timestamp_filter_holdback(scraped, latest) ==
    LET new == {a \in scraped : latest = {} \/ \A t \in latest : PublishTime(a) > t}
    IN  {a \in new : \E b \in new : PublishTime(b) < PublishTime(a)}

\* scrape.py:142-153, the timestamp policy
timestamp_filter(scraped, latest) ==
    {a \in scraped : latest = {} \/ \A t \in latest : PublishTime(a) > t}

\* a scrape that gives up the whole listing when one article fails
scraped_articles_abort(listed, fetch_ok, time_ok) ==
    IF listed \subseteq (fetch_ok \cap time_ok) THEN listed ELSE {}

\* scrape.py:95-131: one detail fetch per listed item, gathered with
\* return_exceptions=True; _fetch_news_details returns None when the fetch
\* fails (scrape.py:226-231, 265-269); a result whose time does not parse is
\* skipped (scrape.py:127-131).  The articles kept:
scraped_articles(listed, fetch_ok, time_ok) ==
    {a \in listed : a \in fetch_ok /\ a \in time_ok}

\* scrape.py:162-177: get_news and its exception handler.  The lookup of
\* article a raises when a is not in lookup_ok or the stored document does
\* not load; False is returned then.
check_news_exists(store, a, lookup_ok) ==
    IF a \notin lookup_ok \/ (store[a].stored /\ ~news_validates(store[a].vdb))
      THEN FALSE
      ELSE store[a].stored

\* scrape.py:180-201, the identity policy
filter_existing_news(store, news_list, lookup_ok) ==
    {a \in news_list : ~check_news_exists(store, a, lookup_ok)}

\* what one scrape_news meets: whether the store answers get_latest_news,
\* whether the listing page is fetched and holds items, the items listed,
\* those whose detail fetch succeeds, those whose time parses, those whose
\* existence lookup succeeds (identity policy only)
ScrapeEnvs ==
    {[store_ok |-> FALSE, listing_ok |-> FALSE, listed |-> {}, fetch_ok |-> {},
      time_ok |-> {}, lookup_ok |-> {}]}
        \cup {[store_ok |-> TRUE, listing_ok |-> FALSE, listed |-> {},
                fetch_ok |-> {}, time_ok |-> {}, lookup_ok |-> {}]}
        \cup UNION {UNION {UNION {
                 {[store_ok |-> TRUE, listing_ok |-> TRUE, listed |-> l,
                   fetch_ok |-> f, time_ok |-> t, lookup_ok |-> k] :
                      k \in SUBSET t} :
                   t \in SUBSET f} :
                   f \in SUBSET l} :
                   l \in SUBSET Articles}

\* scrape.py:21-159.  get_latest_news is awaited before the try block, so
\* its exception leaves scrape_news; everything after it is inside the try,
\* which returns [].
scrape_news(store, use_id_filtering, env) ==
    IF ~env.store_ok \/ ~latest_news_loads(store)
      THEN [raised |-> TRUE, latest |-> {}, parsed |-> {}, result |-> {}]
      ELSE LET latest == latest_news_time(store)
               parsed == IF env.listing_ok
                           THEN scraped_articles(env.listed, env.fetch_ok, env.time_ok)
                           ELSE {}
           IN  [raised |-> FALSE, latest |-> latest, parsed |-> parsed,
                result |-> IF use_id_filtering
                             THEN filter_existing_news(store, parsed, env.lookup_ok)
                             ELSE timestamp_filter(parsed, latest)]

\* an insert that neither validates the documents nor meets a unique key
create_multiple_news_blind(store, objs, vdb) ==
    [raised |-> FALSE,
     store |-> [a \in Articles |->
                  IF a \in objs
                    THEN [stored |-> TRUE, time |-> PublishTime(a),
                          vdb |-> vdb, copies |-> store[a].copies + 1]
                    ELSE store[a]]]

\* services/news.py:20-24.  Every News is built before insert_many runs, so
\* one document that does not validate raises before anything is written.
\* insert_many rejects an id that is already stored.
create_multiple_news(store, objs, vdb) ==
    IF ~news_validates(vdb) \/ (\E a \in objs : store[a].stored)
      THEN [raised |-> TRUE, store |-> store]
      ELSE [raised |-> FALSE,
            store |-> [a \in Articles |->
                         IF a \in objs
                           THEN [stored |-> TRUE, time |-> PublishTime(a),
                                 vdb |-> vdb, copies |-> store[a].copies + 1]
                           ELSE store[a]]]

\* rag.py:60-86.  A CreateNews is built from each scraped item (the items
\* carry every key, scrape.py:254-260) with VDB_added_at=None.  Every
\* exception is swallowed.
save_news_to_database(store, news_list) ==
    LET made == create_multiple_news(store, news_list, {})
    IN  IF news_list = {} \/ made.raised
          THEN [count |-> 0, store |-> store]
          ELSE [count |-> Cardinality(news_list), store |-> made.store]

\* services/vectordb.py:35-76: one upsert of n vectors paired with the
\* payloads of chunks i+1 .. i+n of article a (fresh uuid4 point ids)
add_vectors(vstore, a, i, n) ==
    [vstore EXCEPT ![a] =
        [k \in DOMAIN @ |-> IF k > i /\ k <= i + n THEN @[k] + 1 ELSE @[k]]]

\* rag.py:160-178, the sub-batch loop from offset i: c chunks, e embeddings.
\* A batch whose embeddings and payloads differ in number raises in
\* add_vectors (vectordb.py:61-64) before the write; batch number j raises in
\* the vector store when j > ok_batches.
RECURSIVE store_batches(_, _, _, _, _, _)
store_batches(a, c, e, i, ok_batches, vstore) ==
    IF i >= e
      THEN [ok |-> TRUE, vstore |-> vstore]
      ELSE LET ne == Min2(batch_size, e - i)
               np == IF c > i THEN Min2(batch_size, c - i) ELSE 0
               j == (i \div batch_size) + 1
           IN  IF ne # np \/ j > ok_batches
                 THEN [ok |-> FALSE, vstore |-> vstore]
                 ELSE store_batches(a, c, e, i + batch_size, ok_batches,
                                    add_vectors(vstore, a, i, ne))

\* services/news.py:26-43 called with {"VDB_added_at": t}: find_one raises
\* when the store fails or the stored document does not validate, finds
\* nothing (and does nothing) when the id is not stored, else stamps.
update_news(store, a, t, store_ok) ==
    IF ~store_ok
      THEN [raised |-> TRUE, store |-> store]
      ELSE IF ~store[a].stored
             THEN [raised |-> FALSE, store |-> store]
             ELSE IF ~news_validates(store[a].vdb)
                    THEN [raised |-> TRUE, store |-> store]
                    ELSE [raised |-> FALSE,
                          store |-> [store EXCEPT ![a].vdb = {t}]]

\* what the collaborators do during one _process_single_news: whether the
\* chunker returns the chunks, how many vectors the embedder returns (-1: it
\* raises), how many upserts succeed, whether the document store answers
NBatches(e) ==
    (e + batch_size - 1) \div batch_size

ProcessOutcomes(a) ==
    {[chunk_ok |-> FALSE, e |-> 0, ok_batches |-> 0, update_ok |-> FALSE]}
        \cup {[chunk_ok |-> TRUE, e |-> e, ok_batches |-> 0, update_ok |-> FALSE] :
                 e \in {-1, 0}}
        \cup {[chunk_ok |-> TRUE, e |-> e, ok_batches |-> b, update_ok |-> u] :
                 e \in {NChunks(a) - 1, NChunks(a)} \cap 1..NChunks(a),
                 b \in 0..NBatches(NChunks(a)), u \in BOOLEAN}

\* a guard that lets every description through to the chunker
blank_description_never(a) ==
    FALSE

\* rag.py:131: not description or not description.strip()
blank_description(a) ==
    NChunks(a) = 0

\* rag.py:124-189.  calls is the set of collaborators the article's
\* processing called: the chunker, the embedder, the vector store's upsert,
\* the document store's update.
process_single_news(a, o, store, vstore) ==
    LET c == NChunks(a)
        nope == [ok |-> FALSE, store |-> store, vstore |-> vstore,
                 calls |-> {}]
    IN  IF blank_description(a)
          THEN nope
          ELSE IF c = 0 \/ ~o.chunk_ok
            THEN [nope EXCEPT !.calls = {"chunk"}]
          ELSE IF o.e <= 0
            THEN [nope EXCEPT !.calls = {"chunk", "embed"}]
          ELSE LET up == store_batches(a, c, o.e, 0, o.ok_batches, vstore)
                   st == update_news(store, a, PublishTime(a), o.update_ok)
               IN  IF ~up.ok
                     THEN [nope EXCEPT !.vstore = up.vstore,
                                       !.calls = {"chunk", "embed", "upsert"}]
                     ELSE IF st.raised
                            THEN [nope EXCEPT
                                    !.vstore = up.vstore,
                                    !.calls = {"chunk", "embed", "upsert",
                                               "update"}]
                            ELSE [ok |-> TRUE, store |-> st.store,
                                  vstore |-> up.vstore,
                                  calls |-> {"chunk", "embed", "upsert",
                                             "update"}]

\* a gather in which one failed task cancels the tasks still waiting
gather_remaining_cancel(pending, a, ok) ==
    IF ok THEN pending \ {a} ELSE {}

\* rag.py:105-119: every article of the list gets its own task; a task
\* catches its own exception and returns 0 (rag.py:110-115), so gather runs
\* the other tasks whatever one of them did.  The tasks still to finish
\* after the task of article a returned:
gather_remaining(pending, a, ok) ==
    pending \ {a}

\* all-or-nothing variant of batch_result
batch_result_all(success_count, total) ==
    success_count = total

\* rag.py:54 and 228: the result of a run from the batch's success count
batch_result(success_count, total) ==
    success_count > 0

(***************************************************************************)
(* Bounded concurrency: the detail fetches of one scrape (scrape.py:94-110, *)
(* 203-207) and the per-article tasks of one batch (rag.py:102-119).  All   *)
(* tasks are created at once and handed to gather; each one does its work   *)
(* inside "async with semaphore".                                           *)
(***************************************************************************)
\* detail pages listed in one scrape
MaxStubs == 11
\* articles in one batch
MaxBatch == 4
\* scrape.py:103, asyncio.Semaphore(10)
fetch_limit == 10
\* rag.py:90, max_concurrent: int = 3
max_concurrent == 3

\* a semaphore that never makes a task wait
semaphore_free_unbounded(value) ==
    TRUE

\* asyncio.Semaphore: acquire returns at once only while the value is
\* positive (scrape.py:206, rag.py:106)
semaphore_free(value) ==
    value > 0

\* the pools: the semaphore's initial value and the number of tasks
Pools ==
    {[kind |-> "fetch", limit |-> fetch_limit, n |-> MaxStubs],
     [kind |-> "pipeline", limit |-> max_concurrent, n |-> MaxBatch]}

(***************************************************************************)
(* Client managers: core/vectordb.py VectorDatabase.get_client and         *)
(* core/genai.py GenAIClientManager.get_client, called by several tasks of *)
(* the event loop for one kind.                                            *)
(***************************************************************************)
\* tasks calling get_client
MaxCallers == 3

\* the longest vectors, payloads or point_ids list of one add_vectors call
MaxVecs == 2

\* the uuid4 identifiers generated over a behaviour
MaxUuids == 4

\* the longest list of texts of one embedding call
MaxTexts == 201

\* the get_agent calls of one caller
MaxAgentCalls == 2

Callers ==
    1..MaxCallers

\* a lock that admits a task whoever holds it
lock_free_always(holder) ==
    TRUE

\* asyncio.Lock: "async with lock" is entered only while nobody holds it
\* (vectordb.py:45, 124; genai.py:24, 47).  holder 0: unlocked.
lock_free(holder) ==
    holder = 0

\* vectordb.py:43, 46: kind not in _clients or not _initialized.get(kind);
\* genai.py:22, 25: kind not in _clients (initialized follows the client)
needs_init(client, initialized) ==
    client = 0 \/ ~initialized

(***************************************************************************)
(* State.                                                                  *)
(***************************************************************************)
VARIABLES
    tool_call,        \* the last invocation of search_news_rag: inputs and result
    pc,               \* the node about to run; "idle", "__end__" or "FAILED" between turns
    turn,             \* turns started on the thread
    messages,         \* ExtendedState.messages (checkpointed thread history)
    next_node,        \* ExtendedState.next_node
    analysis_context, \* ExtendedState.analysis_context["news_collection_strategy"]
    crypto_context,   \* keys of ExtendedState.crypto_context
    news_data,        \* ExtendedState.news_data
    reasoning_steps,  \* ExtendedState.reasoning_steps
    market_insights,  \* ExtendedState.market_insights
    response,         \* what generate_response returned for the turn
    stages,           \* history: the stages executed in this turn, in order
    classifier,       \* history: the Supervisor's classifier output of this turn
    tool_invocations, \* history: search_news_rag invocations in this turn
    base_len,         \* history: Len(messages) when the turn's graph run started
    evidence_turn,    \* history: turn of the tool message NewsSynthesizer stored
    failed_stage,     \* history: the stage whose LLM call raised in this turn, "" if none
    db,               \* the news collection of the document store, by article id
    vs,               \* the vector collection: records per (news_id, chunk_index)
    run,              \* the ingestion run in progress or just finished
    runs,             \* ingestion runs started
    handed,           \* history: articles handed to _save_news_to_database
    failed,           \* history: articles whose latest processing did not succeed
    pool,             \* the gather in progress: its kind, semaphore limit, task count
    sem,              \* the semaphore's value
    task_pc,          \* each task's position: "waiting", "inside" or "done"
    scrape_call,      \* the last scrape_news call: policy, what it met, what it returned
    manager,          \* which manager the callers use: "qdrant" or "genai"
    cpc,              \* each caller's position in get_client
    client,           \* _clients[kind]: id of the client object, 0 when absent
    initialized,      \* _initialized[kind]
    lock_made,        \* kind in _locks
    lock_holder,      \* the caller holding _locks[kind], 0 when unlocked
    global_holder,    \* the caller holding _global_lock, 0 when unlocked
    local_client,     \* each caller's local variable client
    constructed,      \* history: client objects constructed
    installs,         \* history: successful initializations
    locks_created,    \* history: asyncio.Lock objects stored in _locks[kind]
    got,              \* history: the client each caller was returned, 0 when none
    qcollection,      \* the target collection of the vector store
    points,           \* the point ids held by the vector index
    uuids,            \* the number of uuid4 identifiers generated so far
    vec_call,         \* the last add_vectors call: arguments, ids used, outcome
    del_call,         \* the last delete_vectors call: arguments and outcome
    embed_call,       \* the last _jina_embed_request call: input, remote outcomes, result
    agent_instance,   \* agent.py:306, _agent_instance: 0 is None, else the Agent's number
    agents_created,   \* history: the Agent objects (and compiled graphs) created
    agent_calls,      \* the get_agent calls each caller has made
    agent_got,        \* per caller, what its last get_agent call returned (0: it raised or none yet)
    jobs              \* the overlapping process_news invocations, by origin

tool_vars == <<tool_call>>

ingest_vars == <<db, vs, run, runs, handed, failed>>

agent_vars ==
    <<pc, turn, messages, next_node, analysis_context, crypto_context,
      news_data, reasoning_steps, market_insights, response, stages,
      classifier, tool_invocations, base_len, evidence_turn, failed_stage>>

pool_vars == <<pool, sem, task_pc>>

scrape_vars == <<scrape_call>>

client_vars ==
    <<manager, cpc, client, initialized, lock_made, lock_holder,
      global_holder, local_client, constructed, installs, locks_created,
      got, qcollection>>

vec_vars == <<points, uuids, vec_call, del_call>>

embed_vars == <<embed_call>>

singleton_vars == <<agent_instance, agents_created, agent_calls, agent_got>>

overlap_vars == <<jobs>>

vars ==
    <<tool_vars, agent_vars, ingest_vars, pool_vars, scrape_vars, client_vars,
      vec_vars, embed_vars, singleton_vars,
      overlap_vars>>

\* what each component leaves alone
non_tool_vars ==
    <<agent_vars, ingest_vars, pool_vars, scrape_vars, client_vars,
      vec_vars, embed_vars, singleton_vars,
      overlap_vars>>

non_agent_vars ==
    <<tool_vars, ingest_vars, pool_vars, scrape_vars, client_vars,
      vec_vars, embed_vars, singleton_vars,
      overlap_vars>>

non_ingest_vars ==
    <<tool_vars, agent_vars, pool_vars, scrape_vars, client_vars,
      vec_vars, embed_vars, singleton_vars,
      overlap_vars>>

non_pool_vars ==
    <<tool_vars, agent_vars, ingest_vars, scrape_vars, client_vars,
      vec_vars, embed_vars, singleton_vars,
      overlap_vars>>

\* a scrape on its own reads the news collection and writes nothing
non_scrape_vars ==
    <<tool_vars, agent_vars, ingest_vars, pool_vars, client_vars,
      vec_vars, embed_vars, singleton_vars,
      overlap_vars>>

non_client_vars ==
    <<tool_vars, agent_vars, ingest_vars, pool_vars, scrape_vars,
      vec_vars, embed_vars, singleton_vars,
      overlap_vars>>

non_vec_vars ==
    <<tool_vars, agent_vars, ingest_vars, pool_vars, scrape_vars,
      client_vars, embed_vars, singleton_vars,
      overlap_vars>>

non_embed_vars ==
    <<tool_vars, agent_vars, ingest_vars, pool_vars, scrape_vars,
      client_vars, vec_vars, singleton_vars,
      overlap_vars>>

non_singleton_vars ==
    <<tool_vars, agent_vars, ingest_vars, pool_vars, scrape_vars,
      client_vars, vec_vars, embed_vars,
      overlap_vars>>

\* the overlapping invocations write the news and vector collections only
non_overlap_vars ==
    <<tool_vars, agent_vars, run, runs, handed, failed, pool_vars,
      scrape_vars, client_vars, vec_vars, embed_vars, singleton_vars>>

(***************************************************************************)
(* The retrieval tool on its own.                                          *)
(***************************************************************************)
ToolIdle ==
    [phase |-> "idle", core_blank |-> FALSE,
     o0 |-> [st |-> "ok", n |-> 0],
     fo |-> <<[st |-> "ok", n |-> 0], [st |-> "ok", n |-> 0]>>,
     res |-> ErrorSentinel, fallbacks |-> 0,
     similarity_threshold |-> 6, score_threshold |-> 6]

ToolInit ==
    tool_call = ToolIdle

\* One complete invocation of the tool, for any query, any threshold and any
\* outcomes.  score_threshold is the threshold of the last search issued:
\* the caller's for the initial search (news.py:116), the fallback one for
\* an expanded query (news.py:139).
ToolInvoke ==
    /\ tool_call.phase = "idle"
    /\ \E b \in BOOLEAN, o0 \in AttemptOutcomes, f1 \in AttemptOutcomes,
          f2 \in AttemptOutcomes, t \in Thresholds :
        LET r == search_news_rag(b, o0, <<f1, f2>>)
        IN  tool_call' = [phase |-> "returned", core_blank |-> b, o0 |-> o0,
                          fo |-> <<f1, f2>>, res |-> r.res,
                          fallbacks |-> r.fallbacks,
                          similarity_threshold |-> t,
                          score_threshold |->
                              IF r.fallbacks > 0
                                THEN fallback_score_threshold(t)
                                ELSE t]

(***************************************************************************)
(* The workflow.                                                           *)
(***************************************************************************)
AgentInit ==
    /\ pc = "idle"
    /\ turn = 0
    /\ messages = <<>>
    /\ next_node = ""
    /\ analysis_context = ""
    /\ crypto_context = {}
    /\ news_data = EmptyList
    /\ reasoning_steps = <<>>
    /\ market_insights = EmptyInsights
    /\ response = "none"
    /\ stages = <<>>
    /\ classifier = "none"
    /\ tool_invocations = 0
    /\ base_len = 0
    /\ evidence_turn = 0
    /\ failed_stage = ""

Last(s) ==
    s[Len(s)]

\* agent.py:245-303, generate_response up to the graph's START edge: the
\* user message joins the thread, every other channel is reset.
StartTurn ==
    /\ pc \in {"idle", "__end__", "FAILED"}
    /\ turn < MaxTurns
    /\ turn' = turn + 1
    /\ messages' = Append(messages, HumanMessage(turn + 1))
    /\ next_node' = ""
    /\ analysis_context' = ""
    /\ crypto_context' = {}
    /\ news_data' = EmptyList
    /\ reasoning_steps' = <<>>
    /\ market_insights' = EmptyInsights
    /\ response' = "none"
    /\ stages' = <<>>
    /\ classifier' = "none"
    /\ tool_invocations' = 0
    /\ base_len' = Len(messages) + 1
    /\ evidence_turn' = 0
    /\ failed_stage' = ""
    /\ pc' = "supervisor"

\* a stage that starts the trace afresh
reasoning_append_afresh(steps, entry) ==
    <<entry>>

\* nodes.py:234-240 (and 252-257, 297, 317-324, 351, 401, 417, 436-445,
\* 466-475): state["reasoning_steps"].append(entry) on the list the stage
\* received, which the stage then returns as the channel's new value
reasoning_append(steps, entry) ==
    Append(steps, entry)

\* a stage that catches the exception of its LLM call and calls it again
StageFails_retry(stage) ==
    /\ pc' = pc
    /\ stages' = Append(stages, stage)
    /\ failed_stage' = stage

\* A stage whose LLM call raised: no node catches the exception of
\* llm.invoke (nodes.py:70, 82, 226, 292, 388, 526) and the graph has no
\* retry policy, so it leaves ainvoke (agent.py:293-301); the node's update
\* is not applied and generate_response returns nothing.
StageFails(stage) ==
    /\ pc' = "FAILED"
    /\ stages' = Append(stages, stage)
    /\ failed_stage' = stage

\* The edge out of a stage: the next stage, or END, where generate_response
\* returns the content of the last message (agent.py:303).
GoTo(stage, target, msgs) ==
    IF target = "__end__"
      THEN /\ pc' = "__end__"
           /\ stages' = stages \o <<stage, "__end__">>
           /\ response' = Last(msgs).tag
           /\ failed_stage' = failed_stage
      ELSE /\ pc' = target
           /\ stages' = Append(stages, stage)
           /\ response' = response
           /\ failed_stage' = failed_stage

\* nodes.py:24-93 and the conditional edge agent.py:141-148
Supervisor ==
    /\ pc = "supervisor"
    /\ \E route \in {"RAG_ANALYSIS", "DIRECT_ANSWER", "OTHER"},
          routing_ok \in BOOLEAN, direct_ok \in BOOLEAN :
        IF ~routing_ok \/ (route = "DIRECT_ANSWER" /\ ~direct_ok)
          THEN /\ StageFails("supervisor")
               /\ classifier' = IF routing_ok THEN route ELSE classifier
               /\ UNCHANGED <<messages, next_node, response>>
          ELSE /\ classifier' = route
               /\ next_node' = supervisor_route(route)
               /\ messages' =
                    IF route = "DIRECT_ANSWER"
                      THEN Append(messages, AIMessage("direct_response", turn, 0))
                      ELSE messages
               /\ GoTo("supervisor", route_analysis_flow(next_node'), messages')
    /\ UNCHANGED <<turn, analysis_context, crypto_context, news_data,
                   reasoning_steps, market_insights, tool_invocations,
                   base_len, evidence_turn>>

\* nodes.py:196-240 and the edge agent.py:151
QueryProcessor ==
    /\ pc = "query_processor"
    /\ \E llm_ok \in BOOLEAN :
        IF ~llm_ok
          THEN /\ StageFails("query_processor")
               /\ UNCHANGED <<crypto_context, reasoning_steps, response>>
          ELSE /\ crypto_context' = crypto_context \cup {"query_analysis"}
               /\ reasoning_steps' =
                    reasoning_append(reasoning_steps,
                           "Query processed and crypto entities extracted")
               /\ GoTo("query_processor", "news_collector", messages)
    /\ UNCHANGED <<turn, messages, next_node, analysis_context, news_data,
                   market_insights, classifier, tool_invocations, base_len,
                   evidence_turn>>

\* nodes.py:243-304 and the conditional edge agent.py:152-159
NewsCollector ==
    /\ pc = "news_collector"
    /\ \E llm_ok \in BOOLEAN, calls \in 0..MaxCalls :
        IF ~llm_ok
          THEN /\ StageFails("news_collector")
               /\ UNCHANGED <<messages, next_node, analysis_context,
                              reasoning_steps, response>>
          ELSE /\ analysis_context' = "multi_target_search"
               /\ reasoning_steps' =
                    reasoning_append(
                        reasoning_append(reasoning_steps,
                                         "Strategic news collection initiated"),
                        "Query processed and crypto entities extracted for search")
               /\ messages' = Append(messages, AIMessage("tool_request", turn, calls))
               /\ next_node' = "news_tools"
               /\ GoTo("news_collector",
                       should_continue_news_collection(analysis_context'),
                       messages')
    /\ UNCHANGED <<turn, crypto_context, news_data, market_insights,
                   classifier, tool_invocations, base_len, evidence_turn>>

\* agent.py:135 and 160: ToolNode(news_tools) runs every tool call of the last
\* AI message and appends one tool message per call; then NewsSynthesizer.
RECURSIVE tool_messages(_, _)
tool_messages(t, results) ==
    IF results = <<>>
      THEN <<>>
      ELSE <<ToolMessage(t, results[1])>> \o tool_messages(t, Tail(results))

ToolExecution ==
    /\ pc = "news_tools"
    /\ \E results \in [1..Last(messages).calls -> ToolResults] :
        /\ messages' = messages \o tool_messages(turn, results)
        /\ tool_invocations' = tool_invocations + Len(results)
    /\ GoTo("news_tools", "news_synthesizer", messages')
    /\ UNCHANGED <<turn, next_node, analysis_context, crypto_context,
                   news_data, reasoning_steps, market_insights, classifier,
                   base_len, evidence_turn>>

\* nodes.py:307-423 and the conditional edge agent.py:161-168
NewsSynthesizer ==
    /\ pc = "news_synthesizer"
    /\ LET found == IF news_data.n = 0
                      THEN latest_tool_message(messages, Len(messages))
                      ELSE [list |-> news_data, turn |-> evidence_turn]
           nd == found.list
           steps1 == reasoning_append(reasoning_steps, "News synthesized and relevance scored")
           steps2 == IF news_data.n = 0 /\ found.turn # 0
                       THEN reasoning_append(steps1, "Retrieved news articles from vector database")
                       ELSE steps1
           mi1 == [market_insights EXCEPT
                     !.keys = @ \cup {"news_themes", "key_signals"},
                     !.news_themes = <<>>]
       IN  IF is_no_evidence(nd)
             THEN \E llm_ok \in BOOLEAN :
                    IF ~llm_ok
                      THEN /\ StageFails("news_synthesizer")
                           /\ UNCHANGED <<messages, next_node, news_data,
                                          reasoning_steps, market_insights,
                                          response, evidence_turn>>
                      ELSE /\ messages' = Append(messages, AIMessage("fallback", turn, 0))
                           /\ news_data' = nd
                           /\ evidence_turn' = found.turn
                           /\ reasoning_steps' =
                                reasoning_append(steps2,
                                       "No news retrieved: fallback text-only analysis provided")
                           /\ market_insights' =
                                [mi1 EXCEPT !.keys = @ \cup {"fallback_analysis"}]
                           /\ next_node' = "__end__"
                           /\ GoTo("news_synthesizer",
                                   should_continue_synthesis(news_data', market_insights'),
                                   messages')
             ELSE /\ news_data' = nd
                  /\ evidence_turn' = found.turn
                  /\ reasoning_steps' =
                       reasoning_append(steps2, "Successfully processed news articles for market analysis")
                  /\ market_insights' =
                       [mi1 EXCEPT !.keys = @ \cup {"processed_news"},
                                   !.processed_news = nd]
                  /\ UNCHANGED <<messages, next_node>>
                  /\ GoTo("news_synthesizer",
                          should_continue_synthesis(news_data', market_insights'),
                          messages)
    /\ UNCHANGED <<turn, analysis_context, crypto_context, classifier,
                   tool_invocations, base_len>>

\* a stage that returns a dictionary holding only its own keys
set_insights_only(insights, keys) ==
    [insights EXCEPT !.keys = keys]

\* nodes.py:446-447, 476-477: state["market_insights"][key] = value for each
\* key, on the dictionary the stage received
set_insights(insights, keys) ==
    [insights EXCEPT !.keys = @ \cup keys]

\* nodes.py:426-453 and the edge agent.py:169
MarketAnalyzer ==
    /\ pc = "market_analyzer"
    /\ reasoning_steps' = reasoning_append(reasoning_steps, "Market impact analysis completed")
    /\ market_insights' =
         set_insights(market_insights,
                      {"impact_assessment", "sentiment_analysis"})
    /\ GoTo("market_analyzer", "pattern_recognizer", messages)
    /\ UNCHANGED <<turn, messages, next_node, analysis_context, crypto_context,
                   news_data, classifier, tool_invocations, base_len,
                   evidence_turn>>

\* nodes.py:456-483 and the edge agent.py:170
PatternRecognizer ==
    /\ pc = "pattern_recognizer"
    /\ reasoning_steps' =
         reasoning_append(reasoning_steps, "Pattern recognition and trend analysis completed")
    /\ market_insights' =
         set_insights(market_insights,
                      {"identified_patterns", "trend_analysis"})
    /\ GoTo("pattern_recognizer", "insight_generator", messages)
    /\ UNCHANGED <<turn, messages, next_node, analysis_context, crypto_context,
                   news_data, classifier, tool_invocations, base_len,
                   evidence_turn>>

\* nodes.py:486-535 and the edge agent.py:171
InsightGenerator ==
    /\ pc = "insight_generator"
    /\ \E llm_ok \in BOOLEAN :
        IF ~llm_ok
          THEN /\ StageFails("insight_generator")
               /\ UNCHANGED <<messages, response>>
          ELSE /\ messages' = Append(messages, AIMessage("insight", turn, 0))
               /\ GoTo("insight_generator", "__end__", messages')
    /\ UNCHANGED <<turn, next_node, analysis_context, crypto_context,
                   news_data, reasoning_steps, market_insights, classifier,
                   tool_invocations, base_len, evidence_turn>>

(***************************************************************************)
(* The ingestion pipeline.                                                 *)
(***************************************************************************)
\* main.py:27-39 and 67-83: background_rag_task, run by the interval
\* scheduler (one instance at a time, max_instances=1) and once at startup;
\* main.py:166-179: the POST /rag/trigger handler.  Both await
\* RAGService.process_news() on the one event loop, with no lock between
\* them.
Jobs ==
    {"scheduled", "manual"}

NoJobs ==
    [j \in Jobs |->
        [phase |-> "idle", selected |-> {}, pending |-> {},
         success_count |-> 0, result |-> FALSE, wrote |-> {}]]

NoRun ==
    [kind |-> "none", phase |-> "idle", scrape_called |-> FALSE,
     scrape_ok |-> FALSE, save_called |-> FALSE, selected |-> {},
     pending |-> {}, processed |-> {}, succeeded |-> {}, success_count |-> 0,
     failed_at_start |-> {}, loaded |-> FALSE, result |-> FALSE,
     calls |-> [a \in Articles |-> {}]]

\* The collection at start holds documents the News model can load, each
\* indexed once in the vector collection.  A stored article carries the
\* publish time the site shows for it, or the one before it (the site has
\* re-dated the story since it was stored).
InitialStores ==
    {[a \in Articles |->
        IF a \in S
          THEN [stored |-> TRUE,
                time |-> IF a \in R THEN PublishTime(a) - 1 ELSE PublishTime(a),
                vdb |-> {PublishTime(a)}, copies |-> 1]
          ELSE Absent] :
        S \in SUBSET {a \in Articles : NChunks(a) > 0}, R \in SUBSET Articles}

EmptyStore ==
    [a \in Articles |-> Absent]

IngestStart(store) ==
    /\ db = store
    /\ vs = [a \in Articles |->
               [k \in 1..NChunks(a) |-> IF store[a].stored THEN 1 ELSE 0]]
    /\ run = NoRun
    /\ runs = 0
    /\ handed = {}
    /\ failed = {}
    /\ jobs = NoJobs

\* what one scrape_news meets: whether the document store answers
\* get_latest_news, and the listed articles that are fetched and parsed
ScrapeOutcomes ==
    {[store_ok |-> FALSE, good |-> {}]}
        \cup {[store_ok |-> TRUE, good |-> g] : g \in SUBSET Articles}

\* rag.py:20-49, process_news up to the batch: scrape_news (scrape.py:21-159)
\* returns the fetched and parsed articles that pass the timestamp policy, or
\* raises when get_latest_news does; then the bulk insert.
StartProcessNews ==
    /\ run.phase \in {"idle", "done"}
    /\ runs < MaxRuns
    /\ runs' = runs + 1
    /\ \E scrape \in ScrapeOutcomes :
        LET started == [NoRun EXCEPT !.kind = "process_news",
                                     !.scrape_called = TRUE,
                                     !.failed_at_start = failed]
            new == timestamp_filter(scrape.good, latest_news_time(db))
            saved == save_news_to_database(db, new)
        IN  IF ~scrape.store_ok \/ ~latest_news_loads(db)
              THEN /\ run' = [started EXCEPT !.phase = "done", !.result = FALSE]
                   /\ UNCHANGED <<db, handed>>
              ELSE IF new = {}
                     THEN /\ run' = [started EXCEPT !.phase = "done",
                                                    !.scrape_ok = TRUE,
                                                    !.result = TRUE]
                          /\ UNCHANGED <<db, handed>>
                     ELSE /\ run' = [started EXCEPT !.phase = "batch",
                                                    !.scrape_ok = TRUE,
                                                    !.save_called = TRUE,
                                                    !.selected = new,
                                                    !.pending = new]
                          /\ db' = saved.store
                          /\ handed' = handed \cup new
    /\ UNCHANGED <<vs, failed>>

\* rag.py:191-221, process_unprocessed_news up to the batch: get_all_news
\* loads every stored document.
StartProcessUnprocessedNews ==
    /\ run.phase \in {"idle", "done"}
    /\ runs < MaxRuns
    /\ runs' = runs + 1
    /\ \E store_ok \in BOOLEAN :
        LET started == [NoRun EXCEPT !.kind = "unprocessed",
                                     !.failed_at_start = failed]
            loads == \A a \in StoredIds(db) : news_validates(db[a].vdb)
            unprocessed_news == {a \in StoredIds(db) : db[a].vdb = {}}
        IN  IF ~store_ok \/ ~loads
              THEN run' = [started EXCEPT !.phase = "done", !.result = FALSE]
              ELSE IF unprocessed_news = {}
                     THEN run' = [started EXCEPT !.phase = "done",
                                                 !.loaded = TRUE,
                                                 !.result = TRUE]
                     ELSE run' = [started EXCEPT !.phase = "batch",
                                                 !.loaded = TRUE,
                                                 !.selected = unprocessed_news,
                                                 !.pending = unprocessed_news]
    /\ UNCHANGED <<db, vs, handed, failed>>

\* rag.py:88-122, one task of _process_news_batch: _process_single_news for
\* one article of the batch, its result added to the success count.
ProcessArticle ==
    /\ run.phase = "batch"
    /\ \E a \in run.pending : \E o \in ProcessOutcomes(a) :
        LET r == process_single_news(a, o, db, vs)
        IN  /\ db' = r.store
            /\ vs' = r.vstore
            /\ failed' = IF r.ok THEN failed \ {a} ELSE failed \cup {a}
            /\ run' = [run EXCEPT
                         !.pending = gather_remaining(@, a, r.ok),
                         !.processed = @ \cup {a},
                         !.succeeded = IF r.ok THEN @ \cup {a} ELSE @,
                         !.success_count = IF r.ok THEN @ + 1 ELSE @,
                         !.calls[a] = r.calls]
    /\ UNCHANGED <<runs, handed>>

\* rag.py:49-54 and 223-228: gather has returned, the run reports its result
FinishBatch ==
    /\ run.phase = "batch"
    /\ run.pending = {}
    /\ run' = [run EXCEPT
                 !.phase = "done",
                 !.result = batch_result(run.success_count,
                                         Cardinality(run.selected))]
    /\ UNCHANGED <<db, vs, runs, handed, failed>>

\* the outcomes of one _process_single_news while every service is up
AllUp(a) ==
    [chunk_ok |-> TRUE, e |-> NChunks(a),
     ok_batches |-> NBatches(NChunks(a)), update_ok |-> TRUE]

\* rag.py:223, 88-122 with every service up: the batch over the articles S
RECURSIVE process_batch_all_up(_, _, _)
process_batch_all_up(S, store, vstore) ==
    IF S = {}
      THEN [store |-> store, vstore |-> vstore, succeeded |-> {},
            calls |-> [a \in Articles |-> {}]]
      ELSE LET a == CHOOSE x \in S : TRUE
               r == process_single_news(a, AllUp(a), store, vstore)
               rest == process_batch_all_up(S \ {a}, r.store, r.vstore)
           IN  [store |-> rest.store, vstore |-> rest.vstore,
                succeeded |-> rest.succeeded
                                \cup (IF r.ok THEN {a} ELSE {}),
                calls |-> [rest.calls EXCEPT ![a] = r.calls]]

\* rag.py:191-232, one whole process_unprocessed_news invocation made while
\* the embedding service, the vector store and the document store answer
\* every call.  It can be repeated without end and is not counted in runs.
ProcessUnprocessedNewsAllUp ==
    /\ run.phase \in {"idle", "done"}
    /\ LET started == [NoRun EXCEPT !.kind = "unprocessed",
                                    !.phase = "done",
                                    !.failed_at_start = failed]
           loads == \A a \in StoredIds(db) : news_validates(db[a].vdb)
           unprocessed_news == {a \in StoredIds(db) : db[a].vdb = {}}
           b == process_batch_all_up(unprocessed_news, db, vs)
       IN  IF ~loads
             THEN /\ run' = started
                  /\ UNCHANGED <<db, vs, failed>>
             ELSE /\ run' = [started EXCEPT
                               !.loaded = TRUE,
                               !.selected = unprocessed_news,
                               !.processed = unprocessed_news,
                               !.succeeded = b.succeeded,
                               !.success_count = Cardinality(b.succeeded),
                               !.calls = b.calls,
                               !.result =
                                   unprocessed_news = {}
                                     \/ batch_result(
                                            Cardinality(b.succeeded),
                                            Cardinality(unprocessed_news))]
                  /\ db' = b.store
                  /\ vs' = b.vstore
                  /\ failed' = (failed \ b.succeeded)
                                  \cup (unprocessed_news \ b.succeeded)
    /\ UNCHANGED <<runs, handed>>

(***************************************************************************)
(* Two process_news invocations on one event loop.  Each await of          *)
(* process_news (rag.py:37, 45, 49) lets the other invocation run.         *)
(***************************************************************************)
\* rag.py:37-40: scrape_news reads the latest stored time (scrape.py:35-42)
\* and returns the parsed articles newer than it
JobScrape(j) ==
    /\ jobs[j].phase = "idle"
    /\ \E scrape \in ScrapeOutcomes :
        LET new == timestamp_filter(scrape.good, latest_news_time(db))
        IN  IF ~scrape.store_ok \/ ~latest_news_loads(db)
              THEN jobs' = [jobs EXCEPT ![j].phase = "done"]
              ELSE IF new = {}
                     THEN jobs' = [jobs EXCEPT ![j].phase = "done",
                                               ![j].result = TRUE]
                     ELSE jobs' = [jobs EXCEPT ![j].phase = "scraped",
                                               ![j].selected = new]
    /\ UNCHANGED <<db, vs>>

\* rag.py:45: the bulk insert of what the invocation scraped
JobSave(j) ==
    /\ jobs[j].phase = "scraped"
    /\ db' = save_news_to_database(db, jobs[j].selected).store
    /\ jobs' = [jobs EXCEPT ![j].phase = "batch",
                            ![j].pending = jobs[j].selected]
    /\ UNCHANGED vs

\* rag.py:49, 88-122: one task of the invocation's batch.  wrote collects
\* the articles the invocation has written vector records for.
JobProcess(j) ==
    /\ jobs[j].phase = "batch"
    /\ \E a \in jobs[j].pending : \E o \in ProcessOutcomes(a) :
        LET r == process_single_news(a, o, db, vs)
        IN  /\ db' = r.store
            /\ vs' = r.vstore
            /\ jobs' = [jobs EXCEPT
                          ![j].pending = gather_remaining(@, a, r.ok),
                          ![j].success_count = IF r.ok THEN @ + 1 ELSE @,
                          ![j].wrote = IF r.vstore # vs THEN @ \cup {a}
                                                        ELSE @]

\* rag.py:49-54: gather has returned, the invocation reports its result
JobFinish(j) ==
    /\ jobs[j].phase = "batch"
    /\ jobs[j].pending = {}
    /\ jobs' = [jobs EXCEPT
                  ![j].phase = "done",
                  ![j].result = batch_result(jobs[j].success_count,
                                             Cardinality(jobs[j].selected))]
    /\ UNCHANGED <<db, vs>>

(***************************************************************************)
(* The semaphore-bounded gathers.                                          *)
(***************************************************************************)
NoPool ==
    [kind |-> "none", limit |-> 0, n |-> 0]

PoolIdle ==
    /\ pool = NoPool
    /\ sem = 0
    /\ task_pc = <<>>

\* scrape.py:103-110 / rag.py:103-118: the semaphore is created and every
\* task is handed to gather
PoolInit ==
    /\ pool \in Pools
    /\ sem = pool.limit
    /\ task_pc = [t \in 1..pool.n |-> "waiting"]

\* "async with semaphore" entered (scrape.py:206, rag.py:106)
Acquire(t) ==
    /\ task_pc[t] = "waiting"
    /\ semaphore_free(sem)
    /\ sem' = sem - 1
    /\ task_pc' = [task_pc EXCEPT ![t] = "inside"]
    /\ UNCHANGED pool

\* the block is left, by return or by exception (scrape.py:207,
\* rag.py:107-115): the semaphore is released
Release(t) ==
    /\ task_pc[t] = "inside"
    /\ sem' = sem + 1
    /\ task_pc' = [task_pc EXCEPT ![t] = "done"]
    /\ UNCHANGED pool

(***************************************************************************)
(* scrape_news on its own, under either policy.                            *)
(***************************************************************************)
NoScrape ==
    [phase |-> "idle", use_id_filtering |-> FALSE, listing_ok |-> FALSE,
     listed |-> {}, fetch_ok |-> {}, time_ok |-> {}, lookup_ok |-> {},
     raised |-> FALSE, latest |-> {}, parsed |-> {}, result |-> {}]

ScrapeIdle ==
    scrape_call = NoScrape

\* scrape.py:21-159, one call
ScrapeNews ==
    \E use_id_filtering \in BOOLEAN, env \in ScrapeEnvs :
        LET r == scrape_news(db, use_id_filtering, env)
        IN  /\ ~use_id_filtering => env.lookup_ok = {}
            /\ scrape_call' = [phase |-> "returned",
                          use_id_filtering |-> use_id_filtering,
                          listing_ok |-> env.listing_ok,
                          listed |-> env.listed, fetch_ok |-> env.fetch_ok,
                          time_ok |-> env.time_ok, lookup_ok |-> env.lookup_ok,
                          raised |-> r.raised, latest |-> r.latest,
                          parsed |-> r.parsed, result |-> r.result]

(***************************************************************************)
(* get_client.  A caller moves from one await (or lock acquisition) to the *)
(* next in one step.                                                       *)
(***************************************************************************)
ClientStart(m, pc0) ==
    /\ manager = m
    /\ cpc = [t \in Callers |-> pc0]
    /\ client = 0
    /\ initialized = FALSE
    /\ lock_made = FALSE
    /\ lock_holder = 0
    /\ global_holder = 0
    /\ local_client = [t \in Callers |-> 0]
    /\ constructed = 0
    /\ installs = 0
    /\ locks_created = 0
    /\ got = [t \in Callers |-> 0]

\* no collection of the configured name
NoCollection ==
    [exists |-> FALSE, size |-> 0, distance |-> "none", count |-> 0]

\* the collections the vector store may hold under the configured name when
\* the process starts: none, or one of any dimension and metric, empty or not
Collections ==
    {NoCollection}
        \cup [exists : {TRUE}, size : {EMBEDDING_DIMENSION, 768},
              distance : {"Cosine", "Dot"}, count : {0, 1}]

\* core/vectordb.py:88-118: collection_exists (103), then create_collection
\* with the given size and cosine distance (104-111) or get_collection
\* (114); a size other than the expected one is logged (116-120) and the
\* function returns normally.  Each await raises when its flag is FALSE.
ensure_collection_exists(coll, vector_size, exists_ok, op_ok) ==
    IF ~exists_ok
      THEN [raised |-> TRUE, coll |-> coll]
      ELSE IF ~coll.exists
             THEN IF op_ok
                    THEN [raised |-> FALSE,
                          coll |-> [exists |-> TRUE, size |-> vector_size,
                                    distance |-> "Cosine", count |-> 0]]
                    ELSE [raised |-> TRUE, coll |-> coll]
             ELSE [raised |-> ~op_ok, coll |-> coll]

ClientIdle ==
    /\ ClientStart("none", "absent")
    /\ qcollection = NoCollection

ClientInit ==
    \/ ClientStart("qdrant", "start") /\ qcollection \in Collections
    \/ ClientStart("genai", "start") /\ qcollection = NoCollection

\* vectordb.py:76, genai.py:42
Return(t) ==
    /\ cpc' = [cpc EXCEPT ![t] = "returned"]
    /\ got' = [got EXCEPT ![t] = client']

\* vectordb.py:43, genai.py:22: the first check
FirstCheck(t) ==
    /\ cpc[t] = "start"
    /\ IF needs_init(client, initialized)
         THEN /\ cpc' = [cpc EXCEPT ![t] = "get_lock"]
              /\ UNCHANGED got
         ELSE /\ UNCHANGED client
              /\ Return(t)
    /\ UNCHANGED <<manager, client, initialized, lock_made, lock_holder,
                   global_holder, local_client, constructed, installs,
                   locks_created,
                   qcollection>>

\* vectordb.py:123-127, genai.py:46-50: _get_lock, its first check
GetLock(t) ==
    /\ cpc[t] = "get_lock"
    /\ cpc' = [cpc EXCEPT ![t] = IF lock_made THEN "lock_wait" ELSE "global_wait"]
    /\ UNCHANGED <<manager, client, initialized, lock_made, lock_holder,
                   global_holder, local_client, constructed, installs,
                   locks_created, got,
                   qcollection>>

\* vectordb.py:124-126, genai.py:47-49: under _global_lock the check is
\* repeated and the lock of the kind is created
MakeLock(t) ==
    /\ cpc[t] = "global_wait"
    /\ lock_free(global_holder)
    /\ lock_made' = TRUE
    /\ locks_created' = IF lock_made THEN locks_created ELSE locks_created + 1
    /\ cpc' = [cpc EXCEPT ![t] = "lock_wait"]
    /\ UNCHANGED <<manager, client, initialized, lock_holder, global_holder,
                   local_client, constructed, installs, got,
                   qcollection>>

\* vectordb.py:45-57, genai.py:24-29: the lock of the kind is taken, the
\* check is repeated, and a caller that still finds no client constructs one
EnterLock(t) ==
    /\ cpc[t] = "lock_wait"
    /\ lock_free(lock_holder)
    /\ IF needs_init(client, initialized)
         THEN /\ lock_holder' = t
              /\ constructed' = constructed + 1
              /\ local_client' = [local_client EXCEPT ![t] = constructed + 1]
              /\ cpc' = [cpc EXCEPT ![t] = "initializing"]
              /\ UNCHANGED <<client, got>>
         ELSE /\ UNCHANGED <<client, lock_holder, constructed, local_client>>
              /\ Return(t)
    /\ UNCHANGED <<manager, initialized, lock_made, global_holder, installs,
                   locks_created,
                   qcollection>>

\* vectordb.py:59-76, genai.py:30-42: the initialization ends (for qdrant
\* the awaited _ensure_collection_exists has returned or raised)
FinishInit(t) ==
    /\ cpc[t] = "initializing"
    /\ \E exists_ok \in BOOLEAN, op_ok \in BOOLEAN :
        LET made == IF manager = "qdrant"
                      THEN ensure_collection_exists(
                               qcollection, EMBEDDING_DIMENSION, exists_ok,
                               op_ok)
                      ELSE [raised |-> ~(exists_ok /\ op_ok),
                            coll |-> qcollection]
        IN  /\ qcollection' = made.coll
            /\ IF ~made.raised
                 THEN /\ client' = local_client[t]
                      /\ initialized' = TRUE
                      /\ installs' = installs + 1
                      /\ Return(t)
                 ELSE /\ client' = IF manager = "qdrant" THEN 0 ELSE client
                      /\ initialized' = FALSE
                      /\ cpc' = [cpc EXCEPT ![t] = "raised"]
                      /\ UNCHANGED <<installs, got>>
    /\ lock_holder' = IF lock_holder = t THEN 0 ELSE lock_holder
    /\ UNCHANGED <<manager, lock_made, global_holder, local_client,
                   constructed, locks_created>>

(***************************************************************************)
(* One add_vectors call on its own (services/vectordb.py:35-76).           *)
(***************************************************************************)
\* the point_ids argument: None, or a list of n caller-chosen ids (the
\* negative numbers, apart from every generated one)
PointIdArgs ==
    {[given |-> FALSE, ids |-> <<>>]}
        \cup {[given |-> TRUE, ids |-> [i \in 1..n |-> 0 - i]] :
                n \in 0..MaxVecs}

\* the payloads argument: None, or a list of n payloads
PayloadArgs ==
    {[given |-> FALSE, n |-> 0]}
        \cup {[given |-> TRUE, n |-> n] : n \in 0..MaxVecs}

\* vectordb.py:52-54: one uuid4 per vector; a uuid4 is an identifier that
\* was never generated before (identifier k is the k-th one generated)
generated_ids(issued, nv) ==
    [i \in 1..nv |-> issued + i]

\* what a call hands back: nothing when it raised, the UpdateResult of the
\* client's upsert (operation id and status, no point id), or a list of ids
Nothing ==
    [kind |-> "nothing", ids |-> <<>>]

\* vectordb.py:68-76: `result = await client.upsert(...)`, `return result`
UpdateResult ==
    [kind |-> "UpdateResult", ids |-> <<>>]

IdList(ids) ==
    [kind |-> "ids", ids |-> ids]

\* the upsert issued before the lengths are compared
add_vectors_points_late(index, issued, nv, payloads, point_ids, upsert_ok) ==
    LET ids == IF point_ids.given THEN point_ids.ids
                                  ELSE generated_ids(issued, nv)
        made == IF point_ids.given THEN issued ELSE issued + nv
        np == IF payloads.given THEN payloads.n ELSE nv
        written == index \cup {ids[i] : i \in 1..Len(ids)}
    IN  IF ~upsert_ok
          THEN [raised |-> "Exception", index |-> index, issued |-> made,
                ids |-> ids, returned |-> Nothing]
          ELSE IF nv # np \/ nv # Len(ids)
                 THEN [raised |-> "ValueError", index |-> written,
                       issued |-> made, ids |-> ids, returned |-> Nothing]
                 ELSE [raised |-> "none", index |-> written,
                       issued |-> made, ids |-> ids,
                       returned |-> UpdateResult]

\* vectordb.py:35-76 on nv vectors: the ids and payloads default to one per
\* vector (52-58), unequal lengths raise ValueError (60-64) before the
\* client is fetched (66) and the upsert is sent (68-75); the upsert writes
\* every point id, or raises and writes nothing when ~upsert_ok.
add_vectors_points(index, issued, nv, payloads, point_ids, upsert_ok) ==
    LET ids == IF point_ids.given THEN point_ids.ids
                                  ELSE generated_ids(issued, nv)
        made == IF point_ids.given THEN issued ELSE issued + nv
        np == IF payloads.given THEN payloads.n ELSE nv
    IN  IF nv # np \/ nv # Len(ids)
          THEN [raised |-> "ValueError", index |-> index, issued |-> made,
                ids |-> ids, returned |-> Nothing]
          ELSE IF ~upsert_ok
                 THEN [raised |-> "Exception", index |-> index,
                       issued |-> made, ids |-> ids, returned |-> Nothing]
                 ELSE [raised |-> "none",
                       index |-> index \cup {ids[i] : i \in 1..Len(ids)},
                       issued |-> made, ids |-> ids,
                       returned |-> UpdateResult]

NoVecCall ==
    [phase |-> "idle", nv |-> 0, payloads |-> [given |-> FALSE, n |-> 0],
     ids_given |-> FALSE, ids |-> <<>>, raised |-> "none",
     returned |-> Nothing]

NoDelCall ==
    [phase |-> "idle", point_ids |-> {}, raised |-> FALSE, returned |-> FALSE]

VecIdle ==
    /\ points = {}
    /\ uuids = 0
    /\ vec_call = NoVecCall
    /\ del_call = NoDelCall

\* one complete call, for any arguments and any outcome of the upsert
AddVectors ==
    \E nv \in 0..MaxVecs, payloads \in PayloadArgs, point_ids \in PointIdArgs,
       upsert_ok \in BOOLEAN :
        LET r == add_vectors_points(points, uuids, nv, payloads, point_ids,
                                    upsert_ok)
        IN  /\ r.issued <= MaxUuids
            /\ points' = r.index
            /\ uuids' = r.issued
            /\ vec_call' = [phase |-> "returned", nv |-> nv,
                            payloads |-> payloads,
                            ids_given |-> point_ids.given, ids |-> r.ids,
                            raised |-> r.raised, returned |-> r.returned]
            /\ UNCHANGED del_call

\* vectordb.py:119-139: get_client is awaited before the try (130) and
\* raises when the client cannot be initialised (core/vectordb.py:69-74);
\* only client.delete is inside the try (132-139).  A delete of ids the index
\* does not hold succeeds.
delete_vectors(index, point_ids, client_ok, delete_ok) ==
    IF ~client_ok
      THEN [raised |-> TRUE, returned |-> FALSE, index |-> index]
      ELSE IF ~delete_ok
             THEN [raised |-> FALSE, returned |-> FALSE, index |-> index]
             ELSE [raised |-> FALSE, returned |-> TRUE,
                   index |-> index \ point_ids]

\* an index holding any of the ids generated so far
DeleteInit ==
    /\ points \in SUBSET (1..MaxUuids)
    /\ uuids = MaxUuids
    /\ vec_call = NoVecCall
    /\ del_call = NoDelCall

\* one complete call, for any ids and any outcome of the two awaits
DeleteVectors ==
    \E point_ids \in SUBSET (1..MaxUuids), client_ok \in BOOLEAN,
       delete_ok \in BOOLEAN :
        LET r == delete_vectors(points, point_ids, client_ok, delete_ok)
        IN  /\ points' = r.index
            /\ del_call' = [phase |-> "returned", point_ids |-> point_ids,
                            raised |-> r.raised, returned |-> r.returned]
            /\ UNCHANGED <<uuids, vec_call>>

(***************************************************************************)
(* One _jina_embed_request call on its own (services/embed.py:61-126).     *)
(***************************************************************************)
\* the embedding of text t, as the remote service computes it
Embedding(t) ==
    [of |-> t]

\* What the remote service does with one request: "ok" answers 200 with one
\* embedding per input in input order, "short" answers 200 with no embedding
\* for the first input, "status" answers a non-success status, "raise" is a
\* transport failure of session.post.
RemoteOutcomes ==
    {"ok", "short", "status", "raise"}

\* the outcomes of the requests of a call on n texts: one per request up to
\* the first that fails
RECURSIVE OutcomeLists(_)
OutcomeLists(k) ==
    IF k = 0
      THEN {<<>>}
      ELSE {<<o>> \o rest : o \in {"ok", "short"}, rest \in OutcomeLists(k - 1)}
               \cup {<<o>> : o \in {"status", "raise"}}

\* embed.py:106-111: the embeddings appended for one 200 answer
appended(batch, outcome) ==
    IF outcome = "ok"
      THEN [k \in 1..Len(batch) |-> Embedding(batch[k])]
      ELSE [k \in 1..(Len(batch) - 1) |-> Embedding(batch[k + 1])]

\* a loop whose slices start one text late after the first
RECURSIVE jina_embed_loop_skip(_, _, _, _, _)
jina_embed_loop_skip(contents, i, outcomes, all_embeddings, sizes) ==
    IF i >= Len(contents)
      THEN [raised |-> FALSE, vectors |-> all_embeddings, sizes |-> sizes,
            error_batch |-> 0]
      ELSE LET first == IF i = 0 THEN 1 ELSE i + 2
               batch == SubSeq(contents, first,
                               Min2(i + embed_batch_size, Len(contents)))
               outcome == outcomes[Len(sizes) + 1]
           IN  IF outcome \in {"ok", "short"}
                 THEN jina_embed_loop_skip(
                          contents, i + embed_batch_size, outcomes,
                          all_embeddings \o appended(batch, outcome),
                          Append(sizes, Len(batch)))
                 ELSE [raised |-> TRUE, vectors |-> <<>>,
                       sizes |-> Append(sizes, Len(batch)),
                       error_batch |-> 0]

\* embed.py:83-126, the loop from offset i.  A non-success status raises
\* RuntimeError with the status and the response text (113-120); it and any
\* transport failure are re-raised as RuntimeError with the message of the
\* first (122-124): no batch index is part of either (error_batch is the
\* batch index the error carries, 0 for none).
RECURSIVE jina_embed_loop(_, _, _, _, _)
jina_embed_loop(contents, i, outcomes, all_embeddings, sizes) ==
    IF i >= Len(contents)
      THEN [raised |-> FALSE, vectors |-> all_embeddings, sizes |-> sizes,
            error_batch |-> 0]
      ELSE LET batch == SubSeq(contents, i + 1,
                               Min2(i + embed_batch_size, Len(contents)))
               outcome == outcomes[Len(sizes) + 1]
           IN  IF outcome \in {"ok", "short"}
                 THEN jina_embed_loop(
                          contents, i + embed_batch_size, outcomes,
                          all_embeddings \o appended(batch, outcome),
                          Append(sizes, Len(batch)))
                 ELSE [raised |-> TRUE, vectors |-> <<>>,
                       sizes |-> Append(sizes, Len(batch)),
                       error_batch |-> 0]

\* embed.py:61-126: an empty list returns [] before any request (72-73)
jina_embed_request(contents, outcomes) ==
    IF Len(contents) = 0
      THEN [raised |-> FALSE, vectors |-> <<>>, sizes |-> <<>>,
            error_batch |-> 0]
      ELSE jina_embed_loop(contents, 0, outcomes, <<>>, <<>>)

NoEmbedCall ==
    [phase |-> "idle", contents |-> <<>>, outcomes |-> <<>>,
     raised |-> FALSE, vectors |-> <<>>, sizes |-> <<>>, error_batch |-> 0]

EmbedIdle ==
    embed_call = NoEmbedCall

\* the requests a call on n texts may issue
Requests(n) ==
    (n + embed_batch_size - 1) \div embed_batch_size

\* a call about to be made, for any number of texts and any remote outcomes
EmbedInit ==
    \E n \in 0..MaxTexts :
        \E outcomes \in OutcomeLists(Requests(n)) :
            embed_call = [NoEmbedCall EXCEPT !.phase = "called",
                                             !.contents = [t \in 1..n |-> t],
                                             !.outcomes = outcomes]

\* the call runs to its end
EmbedTexts ==
    /\ embed_call.phase = "called"
    /\ LET r == jina_embed_request(embed_call.contents, embed_call.outcomes)
       IN  embed_call' = [embed_call EXCEPT !.phase = "returned",
                                            !.raised = r.raised,
                                            !.vectors = r.vectors,
                                            !.sizes = r.sizes,
                                            !.error_batch = r.error_batch]

(***************************************************************************)
(* get_agent (agent/agent.py:306-314) called by concurrent requests        *)
(* (services/chat.py:67, 101).                                             *)
(***************************************************************************)
\* an accessor that builds an Agent on every call
get_agent_instance_fresh(instance, created) ==
    created + 1

\* agent.py:311-314: the instance to return, a new Agent when there is none
get_agent_instance(instance, created) ==
    IF instance = 0 THEN created + 1 ELSE instance

SingletonInit ==
    /\ agent_instance = 0
    /\ agents_created = 0
    /\ agent_calls = [t \in Callers |-> 0]
    /\ agent_got = [t \in Callers |-> 0]

\* agent.py:309-314, one call of one caller.  Between the test of line 312
\* and the assignment of line 313 the coroutine never yields to the event
\* loop: Agent.create awaits create_agent_graph (227), whose only await is
\* get_checkpointer (173), which awaits nothing (85-87), so the call runs to
\* its end as one step of the loop.  Agent.create raises when the document
\* store's client is missing (core/mongodb.py get_client); nothing is
\* assigned then.
GetAgent(t) ==
    /\ agent_calls[t] < MaxAgentCalls
    /\ agent_calls' = [agent_calls EXCEPT ![t] = @ + 1]
    /\ \E create_ok \in BOOLEAN :
        LET it == get_agent_instance(agent_instance, agents_created)
        IN  IF it # agent_instance /\ ~create_ok
              THEN /\ agent_got' = [agent_got EXCEPT ![t] = 0]
                   /\ UNCHANGED <<agent_instance, agents_created>>
              ELSE /\ agent_instance' = it
                   /\ agents_created' =
                        IF it # agent_instance THEN agents_created + 1
                                               ELSE agents_created
                   /\ agent_got' = [agent_got EXCEPT ![t] = it]

(***************************************************************************)
(* Specifications.                                                         *)
(***************************************************************************)
Init ==
    /\ ToolInit /\ AgentInit /\ IngestStart(EmptyStore)
    /\ PoolIdle /\ ScrapeIdle /\ ClientIdle /\ VecIdle /\ EmbedIdle
    /\ SingletonInit

IngestInit ==
    /\ ToolInit /\ AgentInit /\ PoolIdle /\ ScrapeIdle /\ ClientIdle /\ VecIdle /\ EmbedIdle
    /\ SingletonInit
    /\ \E store \in InitialStores : IngestStart(store)

PoolSpecInit ==
    /\ ToolInit /\ AgentInit /\ IngestStart(EmptyStore)
    /\ PoolInit /\ ScrapeIdle /\ ClientIdle /\ VecIdle /\ EmbedIdle
    /\ SingletonInit

ClientSpecInit ==
    /\ ToolInit /\ AgentInit /\ IngestStart(EmptyStore)
    /\ PoolIdle /\ ScrapeIdle /\ ClientInit /\ VecIdle /\ EmbedIdle
    /\ SingletonInit

\* a scrape meets any loadable collection
ScrapeSpecInit ==
    IngestInit

ToolNext ==
    ToolInvoke /\ UNCHANGED non_tool_vars

Next ==
    \/ StartTurn /\ UNCHANGED non_agent_vars
    \/ Supervisor /\ UNCHANGED non_agent_vars
    \/ QueryProcessor /\ UNCHANGED non_agent_vars
    \/ NewsCollector /\ UNCHANGED non_agent_vars
    \/ ToolExecution /\ UNCHANGED non_agent_vars
    \/ NewsSynthesizer /\ UNCHANGED non_agent_vars
    \/ MarketAnalyzer /\ UNCHANGED non_agent_vars
    \/ PatternRecognizer /\ UNCHANGED non_agent_vars
    \/ InsightGenerator /\ UNCHANGED non_agent_vars

IngestNext ==
    \/ StartProcessNews /\ UNCHANGED non_ingest_vars
    \/ StartProcessUnprocessedNews /\ UNCHANGED non_ingest_vars
    \/ ProcessArticle /\ UNCHANGED non_ingest_vars
    \/ FinishBatch /\ UNCHANGED non_ingest_vars

PoolNext ==
    \/ \E t \in DOMAIN task_pc : Acquire(t) /\ UNCHANGED non_pool_vars
    \/ \E t \in DOMAIN task_pc : Release(t) /\ UNCHANGED non_pool_vars

ScrapeNext ==
    ScrapeNews /\ UNCHANGED non_scrape_vars

ClientNext ==
    \/ \E t \in Callers : FirstCheck(t) /\ UNCHANGED non_client_vars
    \/ \E t \in Callers : GetLock(t) /\ UNCHANGED non_client_vars
    \/ \E t \in Callers : MakeLock(t) /\ UNCHANGED non_client_vars
    \/ \E t \in Callers : EnterLock(t) /\ UNCHANGED non_client_vars
    \/ \E t \in Callers : FinishInit(t) /\ UNCHANGED non_client_vars

VecNext ==
    AddVectors /\ UNCHANGED non_vec_vars

DeleteNext ==
    DeleteVectors /\ UNCHANGED non_vec_vars

EmbedNext ==
    EmbedTexts /\ UNCHANGED non_embed_vars

SingletonNext ==
    \E t \in Callers : GetAgent(t) /\ UNCHANGED non_singleton_vars

OverlapNext ==
    \/ \E j \in Jobs : JobScrape(j) /\ UNCHANGED non_overlap_vars
    \/ \E j \in Jobs : JobSave(j) /\ UNCHANGED non_overlap_vars
    \/ \E j \in Jobs : JobProcess(j) /\ UNCHANGED non_overlap_vars
    \/ \E j \in Jobs : JobFinish(j) /\ UNCHANGED non_overlap_vars

DeleteSpecInit ==
    /\ ToolInit /\ AgentInit /\ IngestStart(EmptyStore)
    /\ PoolIdle /\ ScrapeIdle /\ ClientIdle /\ DeleteInit /\ EmbedIdle
    /\ SingletonInit

SpecTool ==
    Init /\ [][ToolNext]_vars

Spec ==
    Init /\ [][Next]_vars

SpecIngest ==
    IngestInit /\ [][IngestNext]_vars

SpecPool ==
    PoolSpecInit /\ [][PoolNext]_vars

SpecScrape ==
    ScrapeSpecInit /\ [][ScrapeNext]_vars

SpecClient ==
    ClientSpecInit /\ [][ClientNext]_vars

SpecVec ==
    Init /\ [][VecNext]_vars

SpecDelete ==
    DeleteSpecInit /\ [][DeleteNext]_vars

EmbedSpecInit ==
    /\ ToolInit /\ AgentInit /\ IngestStart(EmptyStore)
    /\ PoolIdle /\ ScrapeIdle /\ ClientIdle /\ VecIdle /\ EmbedInit
    /\ SingletonInit

SpecEmbed ==
    EmbedSpecInit /\ [][EmbedNext]_vars

SpecSingleton ==
    Init /\ [][SingletonNext]_vars

\* the stages of the graph (every disjunct of Next but the arrival of a new
\* user message)
StageNext ==
    \/ Supervisor /\ UNCHANGED non_agent_vars
    \/ QueryProcessor /\ UNCHANGED non_agent_vars
    \/ NewsCollector /\ UNCHANGED non_agent_vars
    \/ ToolExecution /\ UNCHANGED non_agent_vars
    \/ NewsSynthesizer /\ UNCHANGED non_agent_vars
    \/ MarketAnalyzer /\ UNCHANGED non_agent_vars
    \/ PatternRecognizer /\ UNCHANGED non_agent_vars
    \/ InsightGenerator /\ UNCHANGED non_agent_vars

\* the messages a completed earlier turn that retrieved the list r has left
\* in the checkpoint of the thread
EarlierTurn(r) ==
    <<HumanMessage(1), AIMessage("tool_request", 1, 1), ToolMessage(1, r),
      AIMessage(IF is_no_evidence(r) THEN "fallback" ELSE "insight", 1, 0)>>

\* the thread an invocation starts on: a new one, or one with an earlier turn
Histories ==
    {<<>>} \cup {EarlierTurn(r) : r \in ToolResults}

\* agent.py:245-303: one generate_response call has just handed its input
\* state to the graph
LiveInit ==
    /\ ToolInit /\ IngestStart(EmptyStore)
    /\ PoolIdle /\ ScrapeIdle /\ ClientIdle /\ VecIdle /\ EmbedIdle
    /\ SingletonInit
    /\ \E h \in Histories :
        /\ turn = (IF h = <<>> THEN 1 ELSE 2)
        /\ messages = Append(h, HumanMessage(turn))
        /\ base_len = Len(h) + 1
    /\ pc = "supervisor"
    /\ next_node = ""
    /\ analysis_context = ""
    /\ crypto_context = {}
    /\ news_data = EmptyList
    /\ reasoning_steps = <<>>
    /\ market_insights = EmptyInsights
    /\ response = "none"
    /\ stages = <<>>
    /\ classifier = "none"
    /\ tool_invocations = 0
    /\ evidence_turn = 0
    /\ failed_stage = ""

\* agent.py:293-301: ainvoke runs the node an edge leads to, and every call
\* a node makes comes back (with a value or an exception)
SpecLive ==
    LiveInit /\ [][StageNext]_vars /\ WF_vars(StageNext)

SpecOverlap ==
    IngestInit /\ [][OverlapNext]_vars

\* the ingestion runs, then recovery invoked again and again with every
\* service up
RecoverNext ==
    \/ IngestNext
    \/ ProcessUnprocessedNewsAllUp /\ UNCHANGED non_ingest_vars

\* a batch that has started is run to its end (every awaited call returns)
\* and process_unprocessed_news keeps being invoked
RecoverFairness ==
    /\ WF_vars(ProcessArticle /\ UNCHANGED non_ingest_vars)
    /\ WF_vars(FinishBatch /\ UNCHANGED non_ingest_vars)
    /\ WF_vars(ProcessUnprocessedNewsAllUp /\ UNCHANGED non_ingest_vars)

SpecRecover ==
    IngestInit /\ [][RecoverNext]_vars /\ RecoverFairness

(***************************************************************************)
(* Helpers of the properties.                                              *)
(***************************************************************************)
IsPrefix(s, t) ==
    Len(s) <= Len(t) /\ \A i \in 1..Len(s) : s[i] = t[i]

Range(s) ==
    {s[i] : i \in 1..Len(s)}

DirectPath ==
    <<"supervisor", "__end__">>

FallbackPath ==
    <<"supervisor", "query_processor", "news_collector", "news_tools",
      "news_synthesizer", "__end__">>

AnalysisPath ==
    <<"supervisor", "query_processor", "news_collector", "news_tools",
      "news_synthesizer", "market_analyzer", "pattern_recognizer",
      "insight_generator", "__end__">>

Paths ==
    {DirectPath, FallbackPath, AnalysisPath}

AnalysisStages ==
    {"market_analyzer", "pattern_recognizer", "insight_generator"}

\* the attempts of the last tool invocation: the initial one and the
\* fallbacks that were issued
AttemptsMade ==
    {tool_call.o0} \cup {tool_call.fo[i] : i \in 1..tool_call.fallbacks}

\* the expansions of the last tool invocation that would return hits
HitExpansions ==
    {i \in 1..expanded_queries(tool_call.core_blank) :
        tool_call.fo[i].st = "ok" /\ tool_call.fo[i].n > 0}

Min(S) ==
    CHOOSE x \in S : \A y \in S : x <= y

(***************************************************************************)
(* C1: when the tool result stored by NewsSynthesizer is the single        *)
(* no-results sentinel record, the workflow ends after NewsSynthesizer:    *)
(* no analysis stage is entered and the turn's response is the fallback    *)
(* message.                                                                *)
(***************************************************************************)
C1_SentinelEndsWorkflow ==
    (news_data.kind = "no_results" /\ news_data.n = 1)
        => /\ pc \notin AnalysisStages
           /\ Range(stages) \cap AnalysisStages = {}
           /\ pc = "__end__"
           /\ response = "fallback"

(***************************************************************************)
(* C2: with non-empty news_data the routing after NewsSynthesizer selects  *)
(* MarketAnalyzer whatever market_insights.news_themes holds, the empty    *)
(* list included.                                                          *)
(***************************************************************************)
C2_NonEmptyNewsContinues ==
    /\ \A nd \in ToolResults, themes \in {<<>>, <<"theme">>},
          keys \in SUBSET {"news_themes", "processed_news"} :
            should_continue_synthesis(
                nd, [keys |-> keys, news_themes |-> themes,
                     processed_news |-> EmptyList]) = "market_analyzer"
    /\ \A i \in 1..Len(stages) :
          (stages[i] = "news_synthesizer" /\ news_data.n > 0 /\ pc # "FAILED")
              => IF i = Len(stages)
                   THEN pc = "market_analyzer"
                   ELSE stages[i + 1] = "market_analyzer"

C2_Witness ==
    /\ pc = "market_analyzer"
    /\ Last(stages) = "news_synthesizer"
    /\ news_data.n > 0
    /\ market_insights.news_themes = <<>>

(***************************************************************************)
(* C3: the stages of one invocation are a prefix of (Supervisor, END), of  *)
(* the path ending after NewsSynthesizer or of the path through the        *)
(* analysis stages; a completed invocation is one of the three;            *)
(* NewsCollector is followed by ToolExecution; no stage runs twice.        *)
(***************************************************************************)
C3_StagePaths ==
    /\ \E p \in Paths :
          /\ IsPrefix(stages, p)
          /\ pc \notin {"idle", "__end__", "FAILED", "supervisor"}
                => IsPrefix(Append(stages, pc), p)
    /\ pc = "__end__" => stages \in Paths
    /\ \A i \in 1..Len(stages) :
          stages[i] = "news_collector"
              => IF i = Len(stages)
                   THEN pc \in {"news_tools", "FAILED"}
                   ELSE stages[i + 1] = "news_tools"
    /\ \A i, j \in 1..Len(stages) : stages[i] = stages[j] => i = j

C3_Witness ==
    /\ pc = "__end__"
    /\ stages = AnalysisPath
    /\ turn = MaxTurns

(***************************************************************************)
(* C4: on the classifier output DIRECT_ANSWER the Supervisor appends one   *)
(* reply and the workflow ends: no tool invocation, no other stage.        *)
(***************************************************************************)
C4_DirectAnswerEnds ==
    classifier = "DIRECT_ANSWER"
        => /\ tool_invocations = 0
           /\ IsPrefix(stages, DirectPath)
           /\ pc \in {"__end__", "FAILED"}
           /\ pc = "__end__"
                => /\ Len(messages) = base_len + 1
                   /\ Last(messages) = AIMessage("direct_response", turn, 0)
                   /\ response = "direct_response"

C4_Witness ==
    /\ classifier = "DIRECT_ANSWER"
    /\ pc = "__end__"
    /\ Len(messages) = base_len + 1
    /\ \E i \in 1..Len(messages) : messages[i].type = "tool"

C6_FirstFallbackWithHits ==
    tool_call.phase = "returned"
        => /\ (tool_call.o0 = [st |-> "ok", n |-> 0] /\ HitExpansions # {})
                => LET j == Min(HitExpansions)
                   IN  /\ tool_call.res = Chunks(tool_call.fo[j].n, j)
                       /\ tool_call.fallbacks = j
           /\ tool_call.fallbacks > 0 => tool_call.o0 = [st |-> "ok", n |-> 0]
           /\ tool_call.fallbacks <= 2
           /\ \A i \in 1..tool_call.fallbacks :
                 (tool_call.fo[i].st = "ok" /\ tool_call.fo[i].n > 0)
                     => i = tool_call.fallbacks

C6_Witness ==
    /\ tool_call.phase = "returned"
    /\ tool_call.o0 = [st |-> "ok", n |-> 0]
    /\ tool_call.fo[1] = [st |-> "ok", n |-> 1]
    /\ tool_call.fo[2] = [st |-> "ok", n |-> 2]
    /\ ~tool_call.core_blank
    /\ tool_call.res = Chunks(1, 1)

(***************************************************************************)
(* C7: the no-results record is returned only when every attempt made      *)
(* completed without error and found nothing; an attempt that raises       *)
(* yields the error record.                                                *)
(***************************************************************************)
C7_SentinelsDistinguishFailure ==
    tool_call.phase = "returned"
        => /\ tool_call.res.kind = "no_results"
                => \A a \in AttemptsMade : a = [st |-> "ok", n |-> 0]
           /\ (\E a \in AttemptsMade : a.st # "ok")
                => tool_call.res.kind = "error"

(***************************************************************************)
(* Ingestion properties.                                                   *)
(***************************************************************************)
Stamped(a) ==
    db[a].stored /\ db[a].vdb # {}

AllChunksUpserted(a) ==
    NChunks(a) > 0 /\ \A k \in 1..NChunks(a) : vs[a][k] >= 1

\* the articles the persist step has been run for, and those the store holds
PersistStepArticles ==
    StoredIds(db) \cup handed

\* C8: after any sequence of ingestion operations, every article that went
\* through the persist step and is not currently being processed has
\* VDB_added_at set if and only if every one of its chunks has been upserted
\* to the vector collection.
C8_StampIffAllChunksUpserted ==
    \A a \in PersistStepArticles \ run.pending :
        Stamped(a) <=> AllChunksUpserted(a)

\* C9: process_unprocessed_news selects only stored articles, reprocesses
\* none that is already stamped, selects every article whose processing had
\* failed before the call, and neither scrapes nor inserts.
C9_RecoverySelectsFailed ==
    (run.kind = "unprocessed" /\ run.loaded)
        => /\ run.selected \subseteq StoredIds(db)
           /\ \A a \in run.pending : ~Stamped(a)
           /\ \A a \in run.failed_at_start : NChunks(a) > 0 => a \in run.selected
           /\ ~run.scrape_called
           /\ ~run.save_called

\* C10: a finished process_news whose scrape returned no article reports
\* TRUE without having saved or processed anything; one whose scrape
\* returned articles reports TRUE exactly when at least one of them was
\* processed successfully.
C10_PartialSuccessIsSuccess ==
    (run.kind = "process_news" /\ run.phase = "done" /\ run.scrape_ok)
        => /\ run.selected = {}
                => run.result /\ ~run.save_called /\ run.processed = {}
           /\ run.selected # {}
                => /\ run.save_called
                   /\ run.processed = run.selected
                   /\ run.result <=> run.succeeded # {}

C10_Witness ==
    /\ run.kind = "process_news"
    /\ run.phase = "done"
    /\ run.succeeded # {}
    /\ run.succeeded # run.selected
    /\ run.result

\* C11: within one batch every selected article is processed whatever the
\* other articles' processing did (while the batch runs each one is either
\* processed or still to be processed; once it has finished all are
\* processed), and the success count is the number of articles whose own
\* processing succeeded.
C11_FailureIsolated ==
    /\ run.phase = "batch"
          => /\ run.processed \cup run.pending = run.selected
             /\ run.processed \cap run.pending = {}
    /\ (run.phase = "done" /\ run.selected # {})
          => run.processed = run.selected
    /\ run.succeeded = run.processed \ failed
    /\ run.success_count = Cardinality(run.succeeded)

C11_Witness ==
    /\ run.phase = "done"
    /\ Cardinality(run.selected) = 2
    /\ run.processed = run.selected
    /\ run.success_count = 1
    /\ Cardinality(run.processed \cap failed) = 1

\* C12: at every moment of one scrape at most 10 detail fetches are inside
\* the semaphore, and at every moment of one batch at most 3 articles are
\* inside the per-article pipeline, however many tasks there are.
InFlight ==
    {t \in DOMAIN task_pc : task_pc[t] = "inside"}

C12_BoundedInFlight ==
    /\ pool.kind = "fetch" => Cardinality(InFlight) <= 10
    /\ pool.kind = "pipeline" => Cardinality(InFlight) <= 3
    /\ sem = pool.limit - Cardinality(InFlight)

C12_Witness ==
    /\ pool.kind = "fetch"
    /\ Cardinality(InFlight) = 10
    /\ \E t \in DOMAIN task_pc : task_pc[t] = "waiting"

\* C13: after any sequence of process_news runs, the collection holds at
\* most one document per article id; an article that is scraped again while
\* its id is stored gets no second document.
C13_NoDuplicateIds ==
    \A a \in Articles :
        /\ db[a].copies <= 1
        /\ db[a].stored <=> db[a].copies = 1

C13_Witness ==
    /\ run.kind = "process_news"
    /\ run.save_called
    /\ \E a \in run.selected : db[a].stored /\ db[a].copies = 1

(***************************************************************************)
(* Scrape properties.                                                      *)
(***************************************************************************)
\* the listed articles whose detail fetch succeeded and whose time parsed
FetchedAndParsed ==
    IF scrape_call.listing_ok
      THEN scrape_call.listed \cap scrape_call.fetch_ok \cap scrape_call.time_ok
      ELSE {}

\* C14: under the timestamp policy scrape_news returns exactly the fetched
\* and parsed articles whose publish time is strictly greater than every
\* publish time stored when the scrape began; with an empty collection it
\* returns all of them.
C14_TimestampPolicyExact ==
    (scrape_call.phase = "returned" /\ ~scrape_call.use_id_filtering
        /\ ~scrape_call.raised)
        => \A a \in Articles :
              a \in scrape_call.result
                  <=> /\ a \in FetchedAndParsed
                      /\ \A b \in StoredIds(db) : PublishTime(a) > db[b].time

C14_Witness ==
    /\ scrape_call.phase = "returned"
    /\ ~scrape_call.use_id_filtering
    /\ StoredIds(db) # {}
    /\ scrape_call.result # {}
    /\ FetchedAndParsed \ scrape_call.result # {}

C16_IdPolicyExcludesStored ==
    (scrape_call.phase = "returned" /\ scrape_call.use_id_filtering
        /\ ~scrape_call.raised)
        => scrape_call.result = {a \in scrape_call.parsed : ~db[a].stored}

\* C17: a failed detail fetch or an unparsable time drops that article
\* only: every other listed article whose fetch succeeded and whose time
\* parsed is handed to the policy filter, and is returned when the
\* collection is empty.
C17_ScrapeFailureIsolated ==
    (scrape_call.phase = "returned" /\ ~scrape_call.raised)
        => /\ scrape_call.parsed = FetchedAndParsed
           /\ scrape_call.result \subseteq scrape_call.parsed
           /\ (~scrape_call.use_id_filtering /\ StoredIds(db) = {})
                => scrape_call.result = FetchedAndParsed

C17_Witness ==
    /\ scrape_call.phase = "returned"
    /\ scrape_call.listing_ok
    /\ scrape_call.listed \ scrape_call.fetch_ok # {}
    /\ scrape_call.parsed # {}
    /\ scrape_call.result = scrape_call.parsed

(***************************************************************************)
(* Client manager properties.                                              *)
(***************************************************************************)
Initializing ==
    {t \in Callers : cpc[t] = "initializing"}

\* C18: among any number of tasks calling get_client(kind) for the first
\* time, at most one initialization is in progress at any moment, at most
\* one initialization succeeds (exactly one once a caller has returned), and
\* every caller that returns gets that one client.
C18_SingleInitialization ==
    /\ Cardinality(Initializing) <= 1
    /\ locks_created <= 1
    /\ installs <= 1
    /\ \A t \in Callers :
          cpc[t] = "returned"
              => /\ installs = 1
                 /\ got[t] # 0
                 /\ got[t] = client
    /\ \A t, u \in Callers :
          (cpc[t] = "returned" /\ cpc[u] = "returned") => got[t] = got[u]

C18_Witness ==
    /\ manager = "qdrant"
    /\ \E t \in Callers : cpc[t] = "raised"
    /\ Cardinality({t \in Callers : cpc[t] = "returned"}) >= 2
    /\ constructed = 2

\* the stages that call the LLM (nodes.py:70, 82, 226, 292, 388, 526)
LLMStages ==
    {"supervisor", "query_processor", "news_collector", "news_synthesizer",
     "insight_generator"}

\* C19: when the LLM call of a stage has failed, the invocation has ended
\* with the error: the stage was entered once (no retry), it is the last
\* stage executed, END was not reached and the turn has no response.
C19_StageFailureIsFatal ==
    failed_stage # ""
        => /\ pc = "FAILED"
           /\ failed_stage \in LLMStages
           /\ Last(stages) = failed_stage
           /\ Cardinality({i \in 1..Len(stages) : stages[i] = failed_stage}) = 1
           /\ "__end__" \notin Range(stages)
           /\ response = "none"

C19_Witness ==
    /\ failed_stage = "insight_generator"
    /\ pc = "FAILED"
    /\ turn = MaxTurns
    /\ response = "none"
    /\ \E i \in 1..Len(messages) : messages[i].tag = "insight"

\* the lengths of the three lists of the last add_vectors call differ
UnequalLengths(call) ==
    \/ call.payloads.given /\ call.payloads.n # call.nv
    \/ call.ids_given /\ Len(call.ids) # call.nv

\* C20: a call of add_vectors whose vectors, payloads and ids differ in
\* length raises ValueError and leaves the vector index as it was; a call
\* without ids uses one generated id per vector, each distinct from the
\* others, never generated before and not in the index.
C20_LengthsCheckedBeforeWrite ==
    [][LET call == vec_call'
       IN  /\ UnequalLengths(call)
                => call.raised = "ValueError" /\ points' = points
           /\ ~call.ids_given
                => /\ Len(call.ids) = call.nv
                   /\ \A i \in 1..Len(call.ids) :
                        /\ call.ids[i] > uuids
                        /\ call.ids[i] <= uuids'
                        /\ call.ids[i] \notin points
                        /\ \A j \in 1..Len(call.ids) :
                             call.ids[i] = call.ids[j] => i = j
      ]_vars

C20_Witness ==
    /\ vec_call.phase = "returned"
    /\ vec_call.raised = "ValueError"
    /\ ~vec_call.ids_given
    /\ vec_call.nv = 2
    /\ Len(vec_call.ids) = 2
    /\ vec_call.payloads = [given |-> TRUE, n |-> 1]
    /\ Cardinality(points) >= 2

\* C21: a successful add_vectors call returns the list of the point ids it
\* wrote, one per vector in input order (the given or the generated ones).
C21_ReturnsPointIds ==
    (vec_call.phase = "returned" /\ vec_call.raised = "none")
        => vec_call.returned = IdList(vec_call.ids)

\* C22: a delete_vectors call never raises; it returns a boolean.
C22_DeleteNeverThrows ==
    del_call.phase = "returned" => ~del_call.raised

\* C23: when the first connection of the vector store ends, an absent
\* collection has been created with the configured dimension and cosine
\* distance if get_client succeeded; an existing collection is left as it
\* was; and if it exists with another dimension, get_client has raised and no
\* client is registered as initialised.
C23_BootstrapChecksDimension ==
    [][\A t \in Callers :
         (manager = "qdrant" /\ cpc[t] = "initializing"
            /\ cpc'[t] # "initializing")
           => /\ (~qcollection.exists /\ cpc'[t] = "returned")
                   => qcollection' = [exists |-> TRUE,
                                      size |-> EMBEDDING_DIMENSION,
                                      distance |-> "Cosine", count |-> 0]
              /\ qcollection.exists => qcollection' = qcollection
              /\ (qcollection.exists
                    /\ qcollection.size # EMBEDDING_DIMENSION)
                   => /\ cpc'[t] = "raised"
                      /\ ~initialized'
                      /\ client' = 0
      ]_vars

\* every request of the last embedding call was answered with status 200
\* and one embedding per input text
AllRemoteCallsSucceed ==
    \A k \in 1..Len(embed_call.outcomes) : embed_call.outcomes[k] = "ok"

\* C24: a call on n texts whose requests all succeed returns n vectors, the
\* i-th being the embedding of the i-th text, after ceil(n/100) requests of
\* at most 100 texts each that together carry every text; none when n = 0.
C24_EmbedKeepsCountAndOrder ==
    (embed_call.phase = "returned" /\ AllRemoteCallsSucceed)
        => LET n == Len(embed_call.contents)
               sizes == embed_call.sizes
           IN  /\ ~embed_call.raised
               /\ Len(embed_call.vectors) = n
               /\ \A i \in 1..n :
                    embed_call.vectors[i] = Embedding(embed_call.contents[i])
               /\ Len(sizes) * embed_batch_size >= n
               /\ (Len(sizes) - 1) * embed_batch_size < n \/ n = 0
               /\ n = 0 => sizes = <<>>
               /\ \A k \in 1..Len(sizes) :
                    sizes[k] >= 1 /\ sizes[k] <= embed_batch_size

C24_Witness ==
    /\ embed_call.phase = "returned"
    /\ AllRemoteCallsSucceed
    /\ Len(embed_call.contents) = 2 * embed_batch_size + 1
    /\ embed_call.sizes = <<embed_batch_size, embed_batch_size, 1>>
    /\ Len(embed_call.vectors) = 2 * embed_batch_size + 1

\* C25: a call in which the remote service answered a batch with a
\* non-success status raises, returns no vector of the earlier batches, and
\* its error carries the index of the batch that failed (batches counted
\* from 1).
C25_ErrorNamesFailedBatch ==
    (embed_call.phase = "returned"
       /\ \E k \in 1..Len(embed_call.outcomes) :
            embed_call.outcomes[k] = "status")
        => /\ embed_call.raised
           /\ embed_call.vectors = <<>>
           /\ embed_call.error_batch = Len(embed_call.outcomes)

\* C27: within one invocation every step leaves the reasoning trace it
\* found as a prefix of the trace it leaves.
C27_TraceAppendOnly ==
    [][turn' = turn => IsPrefix(reasoning_steps, reasoning_steps')]_vars

C27_Witness ==
    /\ pc = "__end__"
    /\ Len(reasoning_steps) >= 6
    /\ reasoning_steps[1] = "Query processed and crypto entities extracted"
    /\ Last(reasoning_steps) = "Pattern recognition and trend analysis completed"

\* agent.py:151, 169, 170: the unconditional edges
FixedNext ==
    [query_processor |-> "news_collector",
     market_analyzer |-> "pattern_recognizer",
     pattern_recognizer |-> "insight_generator"]

\* C28: a step of QueryProcessor, MarketAnalyzer or PatternRecognizer leaves
\* messages, news_data and next_node as they were, keeps every key of
\* market_insights and crypto_context (and the news held in market_insights),
\* and a stage that completed is followed by its one fixed next stage.
C28_AdditiveStages ==
    [][(pc \in DOMAIN FixedNext)
         => /\ messages' = messages
            /\ news_data' = news_data
            /\ next_node' = next_node
            /\ market_insights.keys \subseteq market_insights'.keys
            /\ market_insights'.news_themes = market_insights.news_themes
            /\ market_insights'.processed_news = market_insights.processed_news
            /\ crypto_context \subseteq crypto_context'
            /\ (failed_stage' = "") => (pc' = FixedNext[pc])
            /\ (failed_stage' # "") => (pc = "query_processor")
      ]_vars

C28_Witness ==
    /\ pc = "insight_generator"
    /\ stages = <<"supervisor", "query_processor", "news_collector",
                  "news_tools", "news_synthesizer", "market_analyzer",
                  "pattern_recognizer">>
    /\ {"news_themes", "key_signals", "processed_news", "impact_assessment",
        "sentiment_analysis", "identified_patterns", "trend_analysis"}
           \subseteq market_insights.keys
    /\ "query_analysis" \in crypto_context

\* C29: an article with a blank description that a batch has processed
\* caused no chunk, embed, upsert or update call, has no vector and no stamp,
\* is counted as failed and not as a success; the other articles of the
\* batch are still processed (a finished batch has processed all of them).
C29_BlankDescriptionSkipped ==
    /\ \A a \in run.processed :
          NChunks(a) = 0
              => /\ run.calls[a] = {}
                 /\ a \notin run.succeeded
                 /\ a \in failed
                 /\ db[a].vdb = {}
                 /\ \A k \in DOMAIN vs[a] : vs[a][k] = 0
                 /\ run.success_count <= Cardinality(run.processed) - 1
    /\ (run.phase = "batch"
          /\ \E a \in run.processed : NChunks(a) = 0)
          => run.processed \cup run.pending = run.selected
    /\ (run.phase = "done" /\ \E a \in run.selected : NChunks(a) = 0)
          => run.processed = run.selected

C29_Witness ==
    /\ run.phase = "done"
    /\ run.selected = {1, 2}
    /\ NChunks(1) = 0
    /\ run.calls[1] = {}
    /\ run.succeeded = {2}
    /\ run.success_count = 1
    /\ run.calls[2] = {"chunk", "embed", "upsert", "update"}

\* C30: at most one Agent is ever created, and every get_agent call that
\* returned gave its caller that one instance, whatever the order of the
\* callers' calls.
C30_SingleAgent ==
    /\ agents_created <= 1
    /\ agent_instance \in {0, 1}
    /\ agent_instance = 0 <=> agents_created = 0
    /\ \A t \in Callers : agent_got[t] \in {0, agent_instance}

C30_Witness ==
    /\ agents_created = 1
    /\ \A t \in Callers : agent_calls[t] >= 1 /\ agent_got[t] = 1
    /\ \E t \in Callers : agent_calls[t] = 2

\* C31: MarketAnalyzer is entered only with at least one scored chunk in
\* news_data; the error record of the tool is not evidence.
C31_AnalysisNeedsRealChunk ==
    pc = "market_analyzer"
        => news_data.kind = "chunks" /\ news_data.n >= 1

\* C32: the news_data NewsSynthesizer stores in a turn comes from a tool
\* message produced in that turn (evidence_turn is 0 when it stored none).
C32_EvidenceFromThisTurn ==
    news_data.n > 0 => evidence_turn = turn

\* C33: retrying ingestion does not duplicate vectors: an article whose
\* processing had failed before the run and which the run has processed
\* successfully has no chunk with more than one record in the vector
\* collection.
C33_RetryDoesNotDuplicate ==
    \A a \in run.failed_at_start \cap run.succeeded :
        \A k \in 1..NChunks(a) : vs[a][k] <= 1

\* C34: when two process_news invocations overlap, every article is
\* upserted to the vector collection by at most one of them.
C34_OneRunPerArticle ==
    \A a \in Articles :
        Cardinality({j \in Jobs : a \in jobs[j].wrote}) <= 1

\* C35: for every similarity threshold of [0, 1] the threshold a fallback
\* search is issued with is not greater than the caller's threshold.
C35_FallbackNotStricter ==
    (tool_call.phase = "returned" /\ tool_call.fallbacks > 0)
        => tool_call.score_threshold <= tool_call.similarity_threshold

\* C36: process_news indexes only persisted articles: an article it has
\* embedded or upserted is stored in the news collection, and one it counts
\* as successfully processed is stored with its VDB_added_at stamp.
C36_IndexesOnlyPersisted ==
    run.kind = "process_news"
        => \A a \in run.processed :
              /\ (run.calls[a] \cap {"embed", "upsert"} # {}) => db[a].stored
              /\ a \in run.succeeded => Stamped(a)

\* C37: recovery converges: once the services answer every call, repeated
\* process_unprocessed_news invocations lead to a state from which every
\* article that went through the persist step carries its VDB_added_at
\* stamp for good.
C37_RecoveryConverges ==
    <>[](\A a \in PersistStepArticles : Stamped(a))

\* C38: an article is stamped as indexed only if a vector was upserted for
\* every one of its chunks, whatever number of vectors the embedder
\* returned: a step in which the processing of an article returns True and
\* leaves it stamped has added one record for each chunk of the article.
C38_StampNeedsAllChunks ==
    [][\A a \in Articles :
          (a \notin run.succeeded /\ a \in run'.succeeded
              /\ db'[a].stored /\ db'[a].vdb # {})
            => (\A k \in 1..NChunks(a) : vs'[a][k] = vs[a][k] + 1)]_vars

\* C39: the Supervisor's routing is total and two-valued.  Once it has
\* classified the request without failing, the output DIRECT_ANSWER has
\* given a reply followed by END and every other output has led into
\* QueryProcessor; an invocation that ended right after the Supervisor has
\* had a reply appended to the thread.
C39_SupervisorRoutingTotal ==
    /\ (classifier # "none" /\ failed_stage # "supervisor")
          => IF classifier = "DIRECT_ANSWER"
               THEN /\ stages = DirectPath
                    /\ pc = "__end__"
                    /\ Last(messages) = AIMessage("direct_response", turn, 0)
               ELSE /\ Len(stages) >= 1
                    /\ stages[1] = "supervisor"
                    /\ IF Len(stages) = 1
                         THEN pc = "query_processor"
                         ELSE stages[2] = "query_processor"
    /\ (pc = "__end__" /\ stages = DirectPath)
          => /\ Len(messages) = base_len + 1
             /\ Last(messages).type = "ai"
             /\ Last(messages).turn = turn

C39_Witness ==
    /\ classifier = "OTHER"
    /\ stages = <<"supervisor">>
    /\ pc = "query_processor"
    /\ next_node = "rag_analysis"

\* C40: every invocation whose collaborator calls all return reaches END
\* after finitely many stage executions: an invocation never executes more
\* stages than the longest path of the graph has, and one that has started
\* reaches END unless a collaborator call has raised.
C40_InvocationTerminates ==
    /\ [](Len(stages) <= Len(AnalysisPath))
    /\ (pc = "supervisor") ~> (pc = "__end__" \/ failed_stage # "")

C40_Witness ==
    /\ pc = "__end__"
    /\ stages = AnalysisPath
    /\ failed_stage = ""
    /\ classifier = "OTHER"
    /\ evidence_turn = 1
    /\ turn = 2

====
